---------------------------- MODULE Spec2Model ----------------------------
(***************************************************************************)
(* A model of the agentic orchestration core of Cortex:                    *)
(*   src/src/tools/__init__.py          ToolResult, ToolRegistry           *)
(*   src/src/agent/execution_engine.py  ExecutionEngine                    *)
(*   src/src/agent/orchestrator.py      AgenticOrchestrator                *)
(* Real numbers (confidences, thresholds, scores) are kept in thousandths. *)
(***************************************************************************)
EXTENDS Integers, Sequences, FiniteSets, TLC

(***************************************************************************)
(* Bounds of the model.                                                    *)
(***************************************************************************)
MaxTools == 2
MaxWorkers == 2

(***************************************************************************)
(* Values.  Python's None, numbers and strings are kept apart by a tag, so *)
(* that isinstance tests and comparisons between unlike types are explicit.*)
(***************************************************************************)
None == [kind |-> "none"]
Num(v) == [kind |-> "num", v |-> v]
Str(s) == [kind |-> "str", s |-> s]
Dict(items) == [kind |-> "dict", items |-> items]
List(items) == [kind |-> "list", items |-> items]

IsDict(x) == x.kind = "dict"
IsList(x) == x.kind = "list"
IsNum(x) == x.kind = "num"

\* dict.get(key, default) on a mapping kept as a function
Get(m, key, default) == IF key \in DOMAIN m THEN m[key] ELSE default

\* d[key] = value on a mapping kept as a function
Put(m, key, value) == (key :> value) @@ m

Range(s) == {s[i] : i \in DOMAIN s}

\* EnhancedCitation: the fields the core reads
Citation(document, page_number, confidence_score) ==
    [document |-> document, page_number |-> page_number,
     confidence_score |-> confidence_score]

\* ToolResult(success, data, error, metadata, citations)
ToolResult(success, data, error, metadata, citations) ==
    [success |-> success, data |-> data, error |-> error,
     metadata |-> metadata, citations |-> citations]

NoMetadata == <<>>

(***************************************************************************)
(* Number formatting.                                                      *)
(***************************************************************************)
Digit(d) == SubSeq("0123456789", d + 1, d + 1)

\* f"{x:.3f}" of a number kept in thousandths
Format3f(x) ==
    LET a == IF x < 0 THEN -x ELSE x
        f == a % 1000
    IN  (IF x < 0 THEN "-" ELSE "") \o ToString(a \div 1000) \o "."
        \o Digit(f \div 100) \o Digit((f \div 10) % 10) \o Digit(f % 10)

\* str(x) of a float kept in thousandths: the shortest decimal, one digit at least
FloatRepr(x) ==
    LET a == IF x < 0 THEN -x ELSE x
        f == a % 1000
        frac == IF f % 100 = 0 THEN Digit(f \div 100)
                ELSE IF f % 10 = 0 THEN Digit(f \div 100) \o Digit((f \div 10) % 10)
                ELSE Digit(f \div 100) \o Digit((f \div 10) % 10) \o Digit(f % 10)
    IN  (IF x < 0 THEN "-" ELSE "") \o ToString(a \div 1000) \o "." \o frac


(***************************************************************************)
(* Tools.  A tool's execute either returns a ToolResult or raises; what it *)
(* returns is decided by its collaborators (retriever, chain, webhook), so *)
(* execute is a set of outcomes.                                           *)
(***************************************************************************)
Returned(r) == [kind |-> "return", result |-> r, error |-> ""]
Raised(msg) == [kind |-> "raise", result |-> None, error |-> msg]

\* what retriever.retrieve finds: <<number of documents, mean similarity of the top 3>>
Retrievals == {<<1, 300>>, <<2, 500>>, <<3, 800>>}

\* the documents of the knowledge base, in retrieval order
KBDocuments == <<[id |-> "policy.pdf", page |-> 1], [id |-> "policy.pdf", page |-> 2],
                 [id |-> "handbook.pdf", page |-> 1]>>

\* citations as a search tool creates them: confidence_score keeps its default 0.0
KBCitations(n) == [i \in 1..n |-> Citation(KBDocuments[i].id, KBDocuments[i].page, 0)]

KBData(n) == List([i \in 1..n |-> KBDocuments[i].id])

SemanticSearchExecute(context) ==
    {Returned(ToolResult(TRUE, List(<<>>), None,
                         [message |-> "No documents found"], <<>>))}
    \cup {Returned(ToolResult(TRUE, KBData(rc[1]), None,
                              [tool |-> "semantic_search", confidence |-> Num(rc[2])],
                              KBCitations(rc[1]))) : rc \in Retrievals}
    \cup {Returned(ToolResult(FALSE, None, Str("retrieval failed"),
                              [tool |-> "semantic_search"], <<>>))}

KeywordSearchExecute(context) ==
    {Returned(ToolResult(FALSE, None, Str("Keyword search index not available"),
                         NoMetadata, <<>>)),
     Returned(ToolResult(TRUE, List(<<>>), None,
                         [message |-> "No matching keywords found"], <<>>)),
     Returned(ToolResult(TRUE, KBData(2), None,
                         [tool |-> "keyword_search"], KBCitations(2))),
     Returned(ToolResult(FALSE, None, Str("keyword search failed"),
                         [tool |-> "keyword_search"], <<>>))}

\* the chain's reply: its confidence, when it gives one, else the default 'medium'
ChainConfidences == {Str("medium"), Num(900)}

SummarizationExecute(context) ==
    IF Get(context, "context_documents", List(<<>>)).items = <<>>
    THEN {Returned(ToolResult(FALSE, None, Str("No documents provided for summarization"),
                              NoMetadata, <<>>))}
    ELSE {Returned(ToolResult(TRUE,
                              Dict(<<<<"answer", Str("summary")>>,
                                     <<"query_type", Str("summarization")>>>>),
                              None,
                              [tool |-> "summarization", confidence |-> c],
                              <<Citation("policy.pdf", 1, 0)>>)) : c \in ChainConfidences}
         \cup {Returned(ToolResult(FALSE, None,
                                   Str("Summarization generated empty response"),
                                   NoMetadata, <<>>)),
               Returned(ToolResult(FALSE, None, Str("chain failed"),
                                   [tool |-> "summarization"], <<>>))}

ComparisonExecute(context) ==
    {Returned(ToolResult(TRUE,
                         Dict(<<<<"answer", Str("comparison")>>,
                                <<"query_type", Str("comparison")>>,
                                <<"entities", List(<<>>)>>>>),
                         None,
                         [tool |-> "comparison", confidence |-> c],
                         <<Citation("policy.pdf", 1, 0)>>)) : c \in ChainConfidences}
    \cup {Returned(ToolResult(FALSE, None, Str("No documents found for comparison"),
                              [entities |-> "none"], <<>>)),
          Returned(ToolResult(FALSE, None, Str("comparison failed"),
                              [tool |-> "comparison"], <<>>))}

CalculatorExecute(context) ==
    {Returned(ToolResult(TRUE,
                         Dict(<<<<"answer", Str("The result of 2 + 2 is 4.")>>,
                                <<"expression", Str("2 + 2")>>,
                                <<"result", Num(4000)>>,
                                <<"query_type", Str("calculation")>>>>),
                         None, [tool |-> "calculator"], <<>>)),
     Returned(ToolResult(FALSE, None,
                         Str("Could not extract numbers or evaluate expression"),
                         [tool |-> "calculator"], <<>>))}

WebSearchExecute(context) ==
    {Returned(ToolResult(TRUE,
                         Dict(<<<<"answer", Str("web answer")>>,
                                <<"search_results", List(<<Str("https://example.org")>>)>>,
                                <<"query_type", Str("web_search")>>>>),
                         None, [tool |-> "web_search"],
                         <<Citation("Example page", 0, 0)>>)),
     Returned(ToolResult(FALSE, None, Str("No external search results found."),
                         [tool |-> "web_search",
                          message |-> "No external search results found."], <<>>)),
     Returned(ToolResult(FALSE, None, Str("Web search timed out after 30 seconds"),
                         [tool |-> "web_search"], <<>>))}

URLIngestionExecute(context) ==
    {Returned(ToolResult(TRUE,
                         Dict(<<<<"answer", Str("ingested")>>,
                                <<"filename", Str("document.pdf")>>>>),
                         None, [tool |-> "url_ingestion"], <<>>)),
     Returned(ToolResult(FALSE, None, Str("Document ingestion failed with status 500"),
                         [tool |-> "url_ingestion"], <<>>))}

ToolNames == {"semantic_search", "keyword_search", "summarization", "comparison",
              "calculator", "web_search", "url_ingestion"}

\* tool.execute(query, context) of the tool registered under `name`; BaseTool.execute
\* is abstract, so besides what the tools of the repository return it may raise
Execute(name, context) ==
    (CASE name = "semantic_search" -> SemanticSearchExecute(context)
       [] name = "keyword_search" -> KeywordSearchExecute(context)
       [] name = "summarization" -> SummarizationExecute(context)
       [] name = "comparison" -> ComparisonExecute(context)
       [] name = "calculator" -> CalculatorExecute(context)
       [] name = "web_search" -> WebSearchExecute(context)
       [] name = "url_ingestion" -> URLIngestionExecute(context))
    \cup {Raised("boom")}


(***************************************************************************)
(* State.                                                                  *)
(***************************************************************************)
\* the threads that call into one orchestrator / one engine
Threads == {1, 2}

VARIABLES
    max_parallel_workers,  \* ExecutionEngine.max_parallel_workers
    execution_trace,       \* ExecutionEngine.execution_trace
    reasoning_trace,       \* AgenticOrchestrator.reasoning_trace
    deps,                  \* which of retriever, qa_chain, llm_handler the orchestrator holds
    pc,                    \* per thread: where its call stands
    query,                 \* per thread: the arguments of process_query
    analysis,              \* per thread: the Analysis of its query
    plan,                  \* per thread: the ExecutionPlan handed to execute
    context,               \* per thread: the context map handed to execute
    current_context,       \* per thread: the engine's working context
    results,               \* per thread: the results list of the running execute
    idx,                   \* per thread: position of the loop over plan.tools
    futures,               \* per thread: the futures of a Parallel batch
    merged,                \* per thread: the ToolResult merge_results returned
    response,              \* per thread: the AgenticResponse returned
    history,               \* per thread: the calls and terminations of tool.execute
    returned_trace,        \* per thread: the list get_execution_trace gave its caller
    llm_response           \* per thread: what llm_handler.generate did for the analyzer

vars == <<max_parallel_workers, execution_trace, reasoning_trace, deps, pc, query,
          analysis, plan, context, current_context, results, idx, futures, merged,
          response, history, returned_trace, llm_response>>

orchestratorVars ==
    <<reasoning_trace, deps, query, analysis, merged, response, returned_trace,
      llm_response>>

(***************************************************************************)
(* ExecutionPlan and the Condition records.                                *)
(***************************************************************************)
SEQUENTIAL == "sequential"
PARALLEL == "parallel"
CONDITIONAL == "conditional"

NoConditions == <<>>

ExecutionPlan(strategy, tools, conditions) ==
    [strategy |-> strategy, tools |-> tools, conditions |-> conditions]

\* a (tool, confidence) pair of plan.tools
PlanTool(name, confidence) == [name |-> name, confidence |-> confidence]

(***************************************************************************)
(* ExecutionEngine._check_conditions: whether the tool runs, the context   *)
(* as the call leaves it, or the exception the comparison of a non-number  *)
(* raises.                                                                 *)
(***************************************************************************)
RequiredResult(previous_results, requires) ==
    LET hits == {i \in DOMAIN previous_results :
                    Get(previous_results[i].metadata, "tool", "") = requires}
    IN  IF hits = {} THEN None
        ELSE previous_results[CHOOSE i \in hits : \A j \in hits : i <= j]

\* the tool held back also when the last confidence equals min_confidence
AtMostMinConfidence(result_confidence, min_confidence) ==
    result_confidence <= min_confidence

\* line 378: the tool is held back when the last confidence is below min_confidence
BelowMinConfidence(result_confidence, min_confidence) ==
    result_confidence < min_confidence

ExceedsMaxConfidence(result_confidence, max_confidence) ==
    result_confidence > max_confidence

\* line 392: the tool is held back when the last confidence reaches max_confidence
ReachesMaxConfidence(result_confidence, max_confidence) ==
    result_confidence >= max_confidence

\* line 405: the tool is held back when the last result has max_citations citations
ReachesMaxCitations(num_citations, max_citations) ==
    num_citations >= max_citations

\* lines 393 and 406: the reasons written to context['skip_reason']
ConfidenceReason(result_confidence, max_confidence) ==
    "confidence " \o Format3f(result_confidence) \o " >= " \o FloatRepr(max_confidence)

CitationsReason(num_citations, max_citations) ==
    "citations " \o ToString(num_citations) \o " >= " \o ToString(max_citations)

CheckConditions(tool, conditions, previous_results, ctx) ==
    LET tool_conditions == Get(conditions, tool, <<>>)
        has(k) == k \in DOMAIN tool_conditions
        any_previous == previous_results # <<>>
        last_result == previous_results[Len(previous_results)]
        result_confidence == Get(last_result.metadata, "confidence", Num(1000))
        required_result == RequiredResult(previous_results, tool_conditions["requires"])
        Run == [verdict |-> "run", context |-> ctx]
        Skip(c) == [verdict |-> "skip", context |-> c]
        Raise(error) == [verdict |-> "raise", context |-> ctx, error |-> error]
        ContextKey ==
            IF has("context_key") /\ tool_conditions["context_key"] \notin DOMAIN ctx
            THEN Skip(ctx) ELSE Run
        MaxCitations ==
            IF has("max_citations") /\ any_previous
               /\ ReachesMaxCitations(Len(last_result.citations),
                                      tool_conditions["max_citations"])
            THEN Skip(Put(ctx, "skip_reason",
                          CitationsReason(Len(last_result.citations),
                                          tool_conditions["max_citations"])))
            ELSE ContextKey
        MaxConfidence ==
            IF has("max_confidence") /\ any_previous
            THEN IF ~IsNum(result_confidence)
                 THEN Raise("Unknown format code 'f' for object of type 'str'")
                 ELSE IF ReachesMaxConfidence(result_confidence.v,
                                              tool_conditions["max_confidence"])
                 THEN Skip(Put(ctx, "skip_reason",
                               ConfidenceReason(result_confidence.v,
                                                tool_conditions["max_confidence"])))
                 ELSE MaxCitations
            ELSE MaxCitations
        MinConfidence ==
            IF has("min_confidence") /\ any_previous
            THEN IF ~IsNum(result_confidence)
                 THEN Raise("'<' not supported between instances of 'str' and 'float'")
                 ELSE IF BelowMinConfidence(result_confidence.v,
                                            tool_conditions["min_confidence"])
                 THEN Skip(ctx)
                 ELSE MaxConfidence
            ELSE MaxConfidence
        Requires ==
            IF has("requires")
               /\ (required_result = None \/ ~required_result.success)
            THEN Skip(ctx) ELSE MinConfidence
    IN  IF DOMAIN tool_conditions = {} THEN Run ELSE Requires


(***************************************************************************)
(* ExecutionEngine.merge_results.  A dict is kept as the sequence of its   *)
(* <<key, value>> items in insertion order.                                *)
(***************************************************************************)
Keys(items) == {items[i][1] : i \in DOMAIN items}

Lookup(items, key) == items[CHOOSE i \in DOMAIN items : items[i][1] = key][2]

\* d[key] = value: an existing key keeps its place
Store(items, key, value) ==
    IF key \in Keys(items)
    THEN [i \in DOMAIN items |-> IF items[i][1] = key THEN <<key, value>> ELSE items[i]]
    ELSE Append(items, <<key, value>>)

\* lines 462-473: one key of one successful result goes into merged_data
MergeItem(merged_data, key, value) ==
    IF key = "answer"
    THEN Store(merged_data, "answers",
               IF "answers" \in Keys(merged_data)
               THEN List(Append(Lookup(merged_data, "answers").items, value))
               ELSE List(<<value>>))
    ELSE IF key \in Keys(merged_data)
    THEN LET old == Lookup(merged_data, key)
             lst == IF IsList(old) THEN old ELSE List(<<old>>)
         IN  Store(merged_data, key, List(Append(lst.items, value)))
    ELSE Store(merged_data, key, value)

RECURSIVE MergeItems(_, _)
MergeItems(merged_data, items) ==
    IF items = <<>> THEN merged_data
    ELSE MergeItems(MergeItem(merged_data, items[1][1], items[1][2]), Tail(items))

\* lines 458-473: the loop over the successful results, for the data
RECURSIVE MergeData(_, _)
MergeData(merged_data, successful_results) ==
    IF successful_results = <<>> THEN merged_data
    ELSE LET result == Head(successful_results)
         IN  MergeData(IF IsDict(result.data)
                       THEN MergeItems(merged_data, result.data.items)
                       ELSE merged_data,
                       Tail(successful_results))

\* the input results as merge_results leaves them.  Line 473 puts the value object of
\* a key met for the first time into merged_data; when that value is a list, line 469
\* finds a list and line 471 appends every later value of the key to it, and the list
\* is still the one inside the data of the result that first held the key
InputsAfterMerge(rs) ==
    LET holds(j, key) == rs[j].success /\ IsDict(rs[j].data)
                         /\ key \in Keys(rs[j].data.items)
        later(i, key) == SelectSeq([j \in DOMAIN rs |-> j],
                                   LAMBDA j : j > i /\ holds(j, key))
        after(i, item) ==
            IF /\ item[1] # "answer"
               /\ IsList(item[2])
               /\ \A j \in 1..(i - 1) : ~holds(j, item[1])
            THEN <<item[1],
                   List(item[2].items \o
                        [n \in DOMAIN later(i, item[1]) |->
                            Lookup(rs[later(i, item[1])[n]].data.items, item[1])])>>
            ELSE item
    IN  [i \in DOMAIN rs |->
            IF rs[i].success /\ IsDict(rs[i].data)
            THEN [rs[i] EXCEPT !.data =
                     Dict([k \in DOMAIN rs[i].data.items |-> after(i, rs[i].data.items[k])])]
            ELSE rs[i]]

\* line 476: all_citations.extend(result.citations), over the successful results
RECURSIVE AllCitations(_)
AllCitations(successful_results) ==
    IF successful_results = <<>> THEN <<>>
    ELSE Head(successful_results).citations \o AllCitations(Tail(successful_results))

\* lines 479-480: the tool of every successful result, 'unknown' when it names none
ToolsUsed(successful_results) ==
    [i \in DOMAIN successful_results |->
        Get(successful_results[i].metadata, "tool", "unknown")]

CitationKey(citation) == <<citation.document, citation.page_number>>

RECURSIVE LastCitations(_, _)
LastCitations(all_citations, seen) ==
    IF all_citations = <<>> THEN <<>>
    ELSE LET n == Len(all_citations)
             citation == all_citations[n]
             key == CitationKey(citation)
         IN  IF key \in seen THEN LastCitations(SubSeq(all_citations, 1, n - 1), seen)
             ELSE Append(LastCitations(SubSeq(all_citations, 1, n - 1), seen \cup {key}),
                         citation)

\* lines 483-490: the first citation of every (document, page_number) is kept
RECURSIVE UniqueCitations(_, _)
UniqueCitations(all_citations, seen) ==
    IF all_citations = <<>> THEN <<>>
    ELSE LET citation == Head(all_citations)
         IN  IF CitationKey(citation) \in seen
             THEN UniqueCitations(Tail(all_citations), seen)
             ELSE <<citation>> \o UniqueCitations(Tail(all_citations),
                                                  seen \cup {CitationKey(citation)})

\* where list.sort(key=confidence_score, reverse=True) puts a citation among sorted
\* ones: behind those that score as much or more (the sort is stable)
RECURSIVE InsertByConfidence(_, _)
InsertByConfidence(sorted, citation) ==
    IF sorted = <<>> THEN <<citation>>
    ELSE IF Head(sorted).confidence_score >= citation.confidence_score
    THEN <<Head(sorted)>> \o InsertByConfidence(Tail(sorted), citation)
    ELSE <<citation>> \o sorted

\* lines 493-496
RECURSIVE SortByConfidence(_)
SortByConfidence(citations) ==
    IF citations = <<>> THEN <<>>
    ELSE InsertByConfidence(SortByConfidence(SubSeq(citations, 1, Len(citations) - 1)),
                            citations[Len(citations)])

IsSuccess(r) == r.success

MergeResults(rs) ==
    LET successful_results == SelectSeq(rs, IsSuccess)
    IN  IF rs = <<>>
        THEN ToolResult(FALSE, None, Str("No results to merge"), NoMetadata, <<>>)
        ELSE IF successful_results = <<>> THEN rs[1]
        ELSE ToolResult(TRUE,
                        Dict(MergeData(<<>>, successful_results)),
                        None,
                        [tools_used |-> ToolsUsed(successful_results),
                         merge_count |-> Len(successful_results)],
                        SortByConfidence(
                            UniqueCitations(AllCitations(successful_results), {})))

(***************************************************************************)
(* ExecutionEngine.execute.  A thread is at "execute" when it is about to  *)
(* call execute(plan, query, context), and at "returned" or "raised" when  *)
(* the call has ended.                                                     *)
(***************************************************************************)
Set(f, q, v) == [f EXCEPT ![q] = v]

ToolFromTheEnd(q) == plan[q].tools[Len(plan[q].tools) + 1 - idx[q]]

\* the (tool, confidence) pair the loop over plan.tools stands at
Tool(q) == plan[q].tools[idx[q]]

CallEvent(i, name, ctx) ==
    [event |-> "call", index |-> i, tool |-> name, context |-> ctx]

EndEvent(i, name, outcome) ==
    [event |-> "end", index |-> i, tool |-> name, outcome |-> outcome]

\* as_completed has yielded the future of tool i
CollectEvent(i, name) == [event |-> "collect", index |-> i, tool |-> name]

OnExceptionUnnamed(name, msg) ==
    [result |-> ToolResult(FALSE, None, Str(msg), NoMetadata, <<>>),
     entry |-> [step |-> "tool_failure", tool |-> name, error |-> Str(msg)]]

\* the except branch of the three strategies: the failed result and its trace entry
OnException(name, msg) ==
    [result |-> ToolResult(FALSE, None, Str(msg), [tool |-> name], <<>>),
     entry |-> [step |-> "tool_error", tool |-> name, error |-> Str(msg)]]

\* the try branch: the result appended and the trace entry it gets
OnResult(name, result, success_step) ==
    [result |-> result,
     entry |-> IF result.success
               THEN [step |-> success_step, tool |-> name,
                     citations_count |-> Len(result.citations)]
               ELSE [step |-> "tool_failure", tool |-> name, error |-> result.error]]

Handled(name, outcome, success_step) ==
    IF outcome.kind = "raise"
    THEN OnException(name, outcome.error)
    ELSE OnResult(name, outcome.result, success_step)

\* the result written into the context whether it succeeded or not
PropagateAlways(ctx, result) ==
    Put(Put(ctx, "previous_result", result.data),
        "previous_citations", List(result.citations))

\* lines 132-134, 296-298: a successful result feeds the next tool
Propagate(ctx, result) ==
    IF result.success
    THEN Put(Put(ctx, "previous_result", result.data),
             "previous_citations", List(result.citations))
    ELSE ctx

\* context.copy(): the working context is a new map, not the caller's
CopyIsSameObject == FALSE

NoOutcome == [kind |-> "none", result |-> None, error |-> ""]

Future(state, outcome, yielded) ==
    [state |-> state, outcome |-> outcome, yielded |-> yielded]

engineLocals == <<plan, context, current_context, results, idx, futures, history>>

\* execute: clear the trace and enter the strategy's method
ExecuteCall(q) ==
    /\ pc[q] = "execute"
    /\ execution_trace' = <<>>
    /\ results' = Set(results, q, <<>>)
    /\ idx' = Set(idx, q, 1)
    /\ futures' = Set(futures, q, <<>>)
    /\ current_context' = Set(current_context, q, context[q])
    /\ pc' = Set(pc, q,
                 IF plan[q].strategy = PARALLEL /\ max_parallel_workers <= 0
                 THEN "raised" ELSE plan[q].strategy)
    /\ UNCHANGED <<max_parallel_workers, plan, context, history, orchestratorVars>>

\* a write to the working context; it reaches the caller's map only if both are one object
WriteContext(q, ctx) ==
    /\ current_context' = Set(current_context, q, ctx)
    /\ context' = IF CopyIsSameObject THEN Set(context, q, ctx) ELSE context

(* _execute_sequential *)
ExecuteSequentialCall(q) ==
    /\ pc[q] = SEQUENTIAL
    /\ idx[q] <= Len(plan[q].tools)
    /\ execution_trace' = Append(execution_trace,
           [step |-> "execute_tool", tool |-> Tool(q).name,
            confidence |-> Tool(q).confidence, strategy |-> "sequential"])
    /\ history' = Set(history, q,
           Append(history[q], CallEvent(idx[q], Tool(q).name, current_context[q])))
    /\ pc' = Set(pc, q, "sequential_wait")
    /\ UNCHANGED <<max_parallel_workers, plan, context, current_context, results, idx,
                   futures, orchestratorVars>>

ExecuteSequentialReturn(q) ==
    /\ pc[q] = "sequential_wait"
    /\ \E outcome \in Execute(Tool(q).name, current_context[q]) :
          LET h == Handled(Tool(q).name, outcome, "tool_success")
          IN  /\ results' = Set(results, q, Append(results[q], h.result))
              /\ WriteContext(q, Propagate(current_context[q], h.result))
              /\ execution_trace' = Append(execution_trace, h.entry)
              /\ history' = Set(history, q,
                     Append(history[q], EndEvent(idx[q], Tool(q).name, outcome)))
    /\ idx' = Set(idx, q, idx[q] + 1)
    /\ pc' = Set(pc, q, SEQUENTIAL)
    /\ UNCHANGED <<max_parallel_workers, plan, futures, orchestratorVars>>

ExecuteSequentialDone(q) ==
    /\ pc[q] = SEQUENTIAL
    /\ idx[q] > Len(plan[q].tools)
    /\ pc' = Set(pc, q, "returned")
    /\ UNCHANGED <<max_parallel_workers, execution_trace, engineLocals, orchestratorVars>>

(* _execute_conditional *)
ExecuteConditionalCheck(q) ==
    /\ pc[q] = CONDITIONAL
    /\ idx[q] <= Len(plan[q].tools)
    /\ LET check == CheckConditions(Tool(q).name, plan[q].conditions, results[q],
                                    current_context[q])
       IN  /\ WriteContext(q, check.context)
           /\ CASE check.verdict = "raise" ->
                     /\ pc' = Set(pc, q, "raised")
                     /\ UNCHANGED <<execution_trace, history, idx>>
                [] check.verdict = "skip" ->
                     /\ execution_trace' = Append(execution_trace,
                            [step |-> "skip_tool", tool |-> Tool(q).name,
                             reason |-> Get(check.context, "skip_reason",
                                            "condition_not_met")])
                     /\ idx' = Set(idx, q, idx[q] + 1)
                     /\ UNCHANGED <<pc, history>>
                [] check.verdict = "run" ->
                     /\ execution_trace' = Append(execution_trace,
                            [step |-> "execute_tool", tool |-> Tool(q).name,
                             confidence |-> Tool(q).confidence,
                             strategy |-> "conditional"])
                     /\ history' = Set(history, q,
                            Append(history[q],
                                   CallEvent(idx[q], Tool(q).name, check.context)))
                     /\ pc' = Set(pc, q, "conditional_wait")
                     /\ UNCHANGED idx
    /\ UNCHANGED <<max_parallel_workers, plan, results, futures, orchestratorVars>>

ExecuteConditionalReturn(q) ==
    /\ pc[q] = "conditional_wait"
    /\ \E outcome \in Execute(Tool(q).name, current_context[q]) :
          LET h == Handled(Tool(q).name, outcome, "tool_success")
          IN  /\ results' = Set(results, q, Append(results[q], h.result))
              /\ WriteContext(q, Propagate(current_context[q], h.result))
              /\ execution_trace' = Append(execution_trace, h.entry)
              /\ history' = Set(history, q,
                     Append(history[q], EndEvent(idx[q], Tool(q).name, outcome)))
    /\ idx' = Set(idx, q, idx[q] + 1)
    /\ pc' = Set(pc, q, CONDITIONAL)
    /\ UNCHANGED <<max_parallel_workers, plan, futures, orchestratorVars>>

ExecuteConditionalDone(q) ==
    /\ pc[q] = CONDITIONAL
    /\ idx[q] > Len(plan[q].tools)
    /\ pc' = Set(pc, q, "returned")
    /\ UNCHANGED <<max_parallel_workers, execution_trace, engineLocals, orchestratorVars>>


(* _execute_parallel: a ThreadPoolExecutor of max_parallel_workers threads serves *)
(* the submitted calls first come first served; as_completed yields finished     *)
(* futures.                                                                      *)
Running(q) == {i \in DOMAIN futures[q] : futures[q][i].state = "running"}

Pending(q) == {i \in DOMAIN futures[q] : futures[q][i].state = "pending"}

WorkerAlwaysAvailable(q) == TRUE

\* ThreadPoolExecutor(max_workers=self.max_parallel_workers): a worker thread is free
WorkerAvailable(q) == Cardinality(Running(q)) < max_parallel_workers

PropagatedContext(q) ==
    IF results[q] = <<>> THEN context[q]
    ELSE Propagate(context[q], results[q][Len(results[q])])

\* line 197: executor.submit(tool.execute, query, context), the context of the caller
ParallelContext(q) == context[q]

ExecuteParallelSubmit(q) ==
    /\ pc[q] = PARALLEL
    /\ idx[q] <= Len(plan[q].tools)
    /\ execution_trace' = Append(execution_trace,
           [step |-> "submit_tool", tool |-> Tool(q).name,
            confidence |-> Tool(q).confidence, strategy |-> "parallel"])
    /\ futures' = Set(futures, q, Append(futures[q], Future("pending", NoOutcome, FALSE)))
    /\ idx' = Set(idx, q, idx[q] + 1)
    /\ UNCHANGED <<max_parallel_workers, pc, plan, context, current_context, results,
                   history, orchestratorVars>>

\* a worker thread takes the oldest queued call and enters tool.execute(query, context)
WorkerStart(q, i) ==
    /\ pc[q] = PARALLEL
    /\ i \in Pending(q)
    /\ \A j \in Pending(q) : i <= j
    /\ WorkerAvailable(q)
    /\ futures' = Set(futures, q, [futures[q] EXCEPT ![i].state = "running"])
    /\ history' = Set(history, q,
           Append(history[q], CallEvent(i, plan[q].tools[i].name, ParallelContext(q))))
    /\ UNCHANGED <<max_parallel_workers, execution_trace, pc, plan, context,
                   current_context, results, idx, orchestratorVars>>

\* tool.execute ends in its worker thread: the future holds the result or the exception
WorkerFinish(q, i) ==
    /\ pc[q] = PARALLEL
    /\ i \in Running(q)
    /\ \E outcome \in Execute(plan[q].tools[i].name, ParallelContext(q)) :
          /\ futures' = Set(futures, q,
                 [futures[q] EXCEPT ![i] = Future("finished", outcome, FALSE)])
          /\ history' = Set(history, q,
                 Append(history[q], EndEvent(i, plan[q].tools[i].name, outcome)))
    /\ UNCHANGED <<max_parallel_workers, execution_trace, pc, plan, context,
                   current_context, results, idx, orchestratorVars>>

\* one round of the loop over as_completed(future_to_tool)
ExecuteParallelCollect(q, i) ==
    /\ pc[q] = PARALLEL
    /\ idx[q] > Len(plan[q].tools)
    /\ i \in DOMAIN futures[q]
    /\ futures[q][i].state = "finished"
    /\ ~futures[q][i].yielded
    /\ LET h == Handled(plan[q].tools[i].name, futures[q][i].outcome, "tool_complete")
       IN  /\ results' = Set(results, q, Append(results[q], h.result))
           /\ execution_trace' = Append(execution_trace, h.entry)
    /\ futures' = Set(futures, q, [futures[q] EXCEPT ![i].yielded = TRUE])
    /\ history' = Set(history, q,
           Append(history[q], CollectEvent(i, plan[q].tools[i].name)))
    /\ UNCHANGED <<max_parallel_workers, pc, plan, context, current_context, idx,
                   orchestratorVars>>

ExecuteParallelDone(q) ==
    /\ pc[q] = PARALLEL
    /\ idx[q] > Len(plan[q].tools)
    /\ \A i \in DOMAIN futures[q] : futures[q][i].yielded
    /\ pc' = Set(pc, q, "returned")
    /\ UNCHANGED <<max_parallel_workers, execution_trace, engineLocals, orchestratorVars>>

Engine(q) ==
    \/ ExecuteCall(q)
    \/ ExecuteSequentialCall(q)
    \/ ExecuteSequentialReturn(q)
    \/ ExecuteSequentialDone(q)
    \/ ExecuteConditionalCheck(q)
    \/ ExecuteConditionalReturn(q)
    \/ ExecuteConditionalDone(q)
    \/ ExecuteParallelSubmit(q)
    \/ \E i \in 1..Len(plan[q].tools) : WorkerStart(q, i)
    \/ \E i \in 1..Len(plan[q].tools) : WorkerFinish(q, i)
    \/ \E i \in 1..Len(plan[q].tools) : ExecuteParallelCollect(q, i)
    \/ ExecuteParallelDone(q)

(***************************************************************************)
(* The engine used on its own: one caller, every plan over EngineTools up  *)
(* to MaxTools tools, with the conditions of EngineConditions.             *)
(***************************************************************************)
EngineTools == {"semantic_search", "comparison", "web_search"}

DefaultConfidence == 800

SeqsUpTo(S, n) == UNION {[1..k -> S] : k \in 1..n}

\* the Condition records tried on a tool
ConditionRecords ==
    {[max_confidence |-> 500],
     [min_confidence |-> 0, max_citations |-> 3],
     [min_confidence |-> 500],
     [requires |-> "semantic_search"],
     [context_key |-> "session_id"]}

EngineConditions(names) ==
    {NoConditions} \cup {(n :> c) : n \in Range(names), c \in ConditionRecords}

\* the tools of the Parallel plans
ParallelTools == {"keyword_search", "web_search"}

PlanOf(strategy, names, conditions) ==
    ExecutionPlan(strategy,
                  [i \in DOMAIN names |-> PlanTool(names[i], DefaultConfidence)],
                  conditions)

EnginePlans ==
    {PlanOf(SEQUENTIAL, names, NoConditions) : names \in SeqsUpTo(EngineTools, MaxTools)}
    \cup {PlanOf(PARALLEL, names, NoConditions) :
             names \in SeqsUpTo(ParallelTools, MaxTools)}
    \cup UNION {{PlanOf(CONDITIONAL, names, cs) : cs \in EngineConditions(names)} :
                names \in SeqsUpTo(EngineTools, MaxTools)}

\* what the caller of execute passes as context
EngineContexts ==
    {[query |-> "q", session_id |-> "s1"],
     [query |-> "q", skip_reason |-> "from session"]}

DefaultWorkers == 3

NoPlan == ExecutionPlan(SEQUENTIAL, <<>>, NoConditions)

NoResponse == [kind |-> "none"]

Idle(f, v) == [q \in Threads |-> IF q = 1 THEN f ELSE v]

InitEngine ==
    /\ \E p \in EnginePlans, c \in EngineContexts, w \in 1..MaxWorkers :
          /\ plan = Idle(p, NoPlan)
          /\ context = Idle(IF p.strategy = CONDITIONAL THEN c ELSE [query |-> "q"],
                            <<>>)
          /\ max_parallel_workers = IF p.strategy = PARALLEL THEN w ELSE DefaultWorkers
    /\ execution_trace = <<>>
    /\ reasoning_trace = <<>>
    /\ deps = [retriever |-> TRUE, qa_chain |-> TRUE, llm_handler |-> TRUE]
    /\ pc = Idle("execute", "idle")
    /\ query = [q \in Threads |-> None]
    /\ analysis = [q \in Threads |-> None]
    /\ current_context = [q \in Threads |-> <<>>]
    /\ results = [q \in Threads |-> <<>>]
    /\ idx = [q \in Threads |-> 1]
    /\ futures = [q \in Threads |-> <<>>]
    /\ merged = [q \in Threads |-> None]
    /\ response = [q \in Threads |-> NoResponse]
    /\ history = [q \in Threads |-> <<>>]
    /\ returned_trace = [q \in Threads |-> None]
    /\ llm_response = [q \in Threads |-> None]

NextEngine == Engine(1)

SpecEngine == InitEngine /\ [][NextEngine]_vars


(***************************************************************************)
(* Chains of tools: Sequential and Conditional plans of ChainLen tools,    *)
(* long enough for a tool to run after a success and a failure.            *)
(***************************************************************************)
ChainLen == 3

ChainTools == {"semantic_search", "web_search"}

ChainPlans ==
    LET chains == [1..ChainLen -> ChainTools]
    IN  {PlanOf(SEQUENTIAL, names, NoConditions) : names \in chains}
        \cup {PlanOf(CONDITIONAL, names, NoConditions) : names \in chains}
        \cup {PlanOf(CONDITIONAL, names, (n :> [requires |-> r])) :
                 names \in chains, n \in ChainTools, r \in ChainTools}
        \cup {PlanOf(CONDITIONAL, names, (n :> c)) :
                 names \in chains, n \in ChainTools, c \in ConditionRecords}
        \cup {PlanOf(CONDITIONAL, names,
                      ("web_search" :> [max_confidence |-> 500])
                      @@ ("semantic_search" :> [context_key |-> "skip_reason"])) :
                 names \in chains}

InitChain ==
    /\ \E p \in ChainPlans, c \in EngineContexts :
          /\ plan = Idle(p, NoPlan)
          /\ context = Idle(c, <<>>)
    /\ max_parallel_workers = DefaultWorkers
    /\ execution_trace = <<>>
    /\ reasoning_trace = <<>>
    /\ deps = [retriever |-> TRUE, qa_chain |-> TRUE, llm_handler |-> TRUE]
    /\ pc = Idle("execute", "idle")
    /\ query = [q \in Threads |-> None]
    /\ analysis = [q \in Threads |-> None]
    /\ current_context = [q \in Threads |-> <<>>]
    /\ results = [q \in Threads |-> <<>>]
    /\ idx = [q \in Threads |-> 1]
    /\ futures = [q \in Threads |-> <<>>]
    /\ merged = [q \in Threads |-> None]
    /\ response = [q \in Threads |-> NoResponse]
    /\ history = [q \in Threads |-> <<>>]
    /\ returned_trace = [q \in Threads |-> None]
    /\ llm_response = [q \in Threads |-> None]

NextChain ==
    \/ ExecuteCall(1)
    \/ ExecuteSequentialCall(1)
    \/ ExecuteSequentialReturn(1)
    \/ ExecuteSequentialDone(1)
    \/ ExecuteConditionalCheck(1)
    \/ ExecuteConditionalReturn(1)
    \/ ExecuteConditionalDone(1)

SpecChain == InitChain /\ [][NextChain]_vars


(***************************************************************************)
(* get_execution_trace, and one engine used for one execute after another: *)
(* caller 1 runs a plan, reads the trace and edits the list it was given,  *)
(* then caller 2 does the same on the same engine.                         *)
(***************************************************************************)
\* get_execution_trace returning self.execution_trace itself
TraceItself(trace) == [trace |-> trace, same_object |-> TRUE]

\* self.execution_trace.copy(): a new list with the same events
TraceCopy(trace) == [trace |-> trace, same_object |-> FALSE]

GetExecutionTrace(q) ==
    /\ pc[q] = "returned"
    /\ returned_trace' = Set(returned_trace, q, TraceCopy(execution_trace))
    /\ pc' = Set(pc, q, "got_trace")
    /\ UNCHANGED <<max_parallel_workers, execution_trace, engineLocals, reasoning_trace,
                   deps, query, analysis, merged, response, llm_response>>

\* the caller adds to or removes from the list it was given
CallerEdits(q) ==
    /\ pc[q] = "got_trace"
    /\ LET l == returned_trace[q].trace
           edits == {Append(l, [step |-> "caller_note"])}
                    \cup (IF l = <<>> THEN {} ELSE {Tail(l), SubSeq(l, 1, Len(l) - 1)})
       IN  \E edited \in edits :
              /\ returned_trace' =
                     Set(returned_trace, q, [returned_trace[q] EXCEPT !.trace = edited])
              /\ execution_trace' =
                     IF returned_trace[q].same_object THEN edited ELSE execution_trace
    /\ pc' = Set(pc, q, "edited")
    /\ UNCHANGED <<max_parallel_workers, engineLocals, reasoning_trace, deps, query,
                   analysis, merged, response, llm_response>>

\* the next call of execute on the engine begins when the one before is over
NextExecute(q) ==
    /\ pc[q] = "waiting"
    /\ \A r \in Threads \ {q} : pc[r] = "edited"
    /\ pc' = Set(pc, q, "execute")
    /\ UNCHANGED <<max_parallel_workers, execution_trace, engineLocals, reasoning_trace,
                   deps, query, analysis, merged, response, returned_trace,
                   llm_response>>

TracePlans ==
    {PlanOf(SEQUENTIAL, <<"semantic_search", "web_search">>, NoConditions),
     PlanOf(PARALLEL, <<"keyword_search", "web_search">>, NoConditions),
     PlanOf(CONDITIONAL, <<"semantic_search", "web_search">>,
            ("web_search" :> [max_confidence |-> 500]))}

InitTrace ==
    /\ plan \in [Threads -> TracePlans]
    /\ context = [q \in Threads |-> [query |-> "q"]]
    /\ max_parallel_workers = DefaultWorkers
    /\ execution_trace = <<>>
    /\ reasoning_trace = <<>>
    /\ deps = [retriever |-> TRUE, qa_chain |-> TRUE, llm_handler |-> TRUE]
    /\ pc = Idle("execute", "waiting")
    /\ query = [q \in Threads |-> None]
    /\ analysis = [q \in Threads |-> None]
    /\ current_context = [q \in Threads |-> <<>>]
    /\ results = [q \in Threads |-> <<>>]
    /\ idx = [q \in Threads |-> 1]
    /\ futures = [q \in Threads |-> <<>>]
    /\ merged = [q \in Threads |-> None]
    /\ response = [q \in Threads |-> NoResponse]
    /\ history = [q \in Threads |-> <<>>]
    /\ returned_trace = [q \in Threads |-> None]
    /\ llm_response = [q \in Threads |-> None]

NextTrace ==
    \E q \in Threads :
        \/ Engine(q)
        \/ GetExecutionTrace(q)
        \/ CallerEdits(q)
        \/ NextExecute(q)

SpecTrace == InitTrace /\ [][NextTrace]_vars


(***************************************************************************)
(* The queries.  The analyzer and the selection rules read a query through *)
(* substring and regular expression tests; a query is kept as its text and *)
(* what those tests give on it.                                            *)
(***************************************************************************)
Keywords(comparison, calculation, summarization, external, temporal, quantitative) ==
    [comparison |-> comparison, calculation |-> calculation,
     summarization |-> summarization, external |-> external,
     temporal |-> temporal, quantitative |-> quantitative]

\* text: the query; complexity: _assess_complexity; rule_intent:
\* _rule_based_classify_intent; multiple: the tests of _requires_multiple_tools on the
\* text; mentions: the keyword tests of _select_tools; greeting: the branch of
\* _handle_conversational; can_handle: each tool's can_handle in registration order
Queries == {
    [text |-> "hi",
     complexity |-> "simple", rule_intent |-> "conversational", multiple |-> FALSE,
     mentions |-> {}, greeting |-> "hello",
     can_handle |-> <<600, 500, 200, 200, 200, 300, 0>>,
     entities |-> <<>>,
     keywords |-> Keywords(<<>>, <<>>, <<>>, <<>>, <<>>, <<>>)],
    [text |-> "Summarize the uploaded file",
     complexity |-> "simple", rule_intent |-> "summarization", multiple |-> FALSE,
     mentions |-> {"ingestion", "summarization"}, greeting |-> "other",
     can_handle |-> <<600, 500, 950, 200, 200, 300, 0>>,
     entities |-> <<>>,
     keywords |-> Keywords(<<>>, <<"sum">>, <<"summarize">>, <<>>, <<>>, <<>>)],
    [text |-> "What is our remote work policy?",
     complexity |-> "simple", rule_intent |-> "factual", multiple |-> FALSE,
     mentions |-> {}, greeting |-> "other",
     can_handle |-> <<900, 500, 200, 200, 200, 300, 0>>,
     entities |-> <<>>,
     keywords |-> Keywords(<<>>, <<>>, <<>>, <<>>, <<>>, <<>>)],
    [text |-> "What is the latest news today?",
     complexity |-> "simple", rule_intent |-> "external", multiple |-> FALSE,
     mentions |-> {"external"}, greeting |-> "other",
     can_handle |-> <<900, 500, 200, 200, 200, 750, 0>>,
     entities |-> <<>>,
     keywords |-> Keywords(<<>>, <<>>, <<>>, <<"latest", "today", "news">>, <<"day">>, <<>>)],
    [text |-> "Compare Policy A and Policy B",
     complexity |-> "simple", rule_intent |-> "comparison", multiple |-> FALSE,
     mentions |-> {"comparison"}, greeting |-> "other",
     can_handle |-> <<600, 850, 200, 950, 200, 300, 0>>,
     entities |-> <<"Policy", "Compare Policy">>,
     keywords |-> Keywords(<<"compare">>, <<>>, <<>>, <<>>, <<>>, <<>>)],
    [text |-> "Calculate 15% of the budget",
     complexity |-> "simple", rule_intent |-> "calculation", multiple |-> FALSE,
     mentions |-> {"calculation"}, greeting |-> "other",
     can_handle |-> <<600, 500, 200, 200, 950, 300, 0>>,
     entities |-> <<>>,
     keywords |-> Keywords(<<>>, <<"calculate">>, <<>>, <<>>, <<>>, <<>>)],
    [text |-> "What is the travel policy, and who approves it? Also what is the limit?",
     complexity |-> "complex", rule_intent |-> "factual", multiple |-> TRUE,
     mentions |-> {}, greeting |-> "other",
     can_handle |-> <<900, 850, 200, 600, 200, 300, 0>>,
     entities |-> <<"Also">>,
     keywords |-> Keywords(<<>>, <<>>, <<>>, <<>>, <<>>, <<>>)],
    [text |-> "Compare Policy A and Policy B, also Policy C",
     complexity |-> "moderate", rule_intent |-> "comparison", multiple |-> TRUE,
     mentions |-> {"comparison"}, greeting |-> "other",
     can_handle |-> <<600, 850, 200, 950, 200, 300, 0>>,
     entities |-> <<"Policy", "B,", "Compare Policy">>,
     keywords |-> Keywords(<<"compare">>, <<>>, <<>>, <<>>, <<>>, <<>>)],
    [text |-> "Ingest https://example.com/policy.pdf",
     complexity |-> "moderate", rule_intent |-> "factual", multiple |-> FALSE,
     mentions |-> {"url", "ingestion"}, greeting |-> "other",
     can_handle |-> <<600, 500, 200, 200, 200, 300, 950>>,
     entities |-> <<>>,
     keywords |-> Keywords(<<>>, <<>>, <<>>, <<>>, <<>>, <<>>)]}

\* _register_tools: the order in which tools enter the registry
ToolOrder == <<"semantic_search", "keyword_search", "summarization", "comparison",
               "calculator", "web_search", "url_ingestion">>

Registered(name, d) ==
    CASE name \in {"semantic_search", "keyword_search"} -> d.retriever
      [] name = "summarization" -> d.qa_chain
      [] name = "comparison" -> d.retriever /\ d.llm_handler /\ d.qa_chain
      [] OTHER -> TRUE

ValidIntents == {"conversational", "factual", "external", "comparison", "summarization",
                 "calculation"}

\* _llm_classify_intent gave no intent, or raised
NoIntent == "none"

\* what llm_handler.generate does when the analyzer calls it: it raises, or it
\* replies.  A reply is kept as its text and what the tests of _llm_classify_intent
\* read of it: lower, the text stripped and lowercased; lines, the lines of lower,
\* stripped; found, the valid intents that occur in lower
LLMBehaviours ==
    LET Reply(text, lower, lines, found) ==
            [kind |-> "reply", text |-> text, lower |-> lower, lines |-> lines,
             found |-> found]
    IN  {[kind |-> "raise"]}
        \cup {Reply(w, w, <<w>>, {w}) : w \in ValidIntents}
        \cup {Reply("The category is:\nExternal", "the category is:\nexternal",
                    <<"the category is:", "external">>, {"external"}),
              Reply("A calculation, not a comparison.", "a calculation, not a comparison.",
                    <<"a calculation, not a comparison.">>, {"comparison", "calculation"}),
              Reply("I am not sure.", "i am not sure.", <<"i am not sure.">>, {})}

\* the reply taken for the intent without a look at valid_intents
ReplyAsIntent(reply) == reply.lower

\* _llm_classify_intent, lines 213-240: the reply is an intent word, or its last line
\* that is one, or the first intent of valid_intents found in it, or nothing
LLMClassifyIntent(reply) ==
    LET valid_intents == <<"conversational", "factual", "external", "comparison",
                           "summarization", "calculation">>
        valid == {k \in DOMAIN reply.lines : reply.lines[k] \in Range(valid_intents)}
        first == CHOOSE i \in DOMAIN valid_intents :
                    /\ valid_intents[i] \in reply.found
                    /\ \A j \in 1..(i - 1) : valid_intents[j] \notin reply.found
    IN  IF reply.lower \in Range(valid_intents) THEN reply.lower
        ELSE IF valid # {}
             THEN reply.lines[CHOOSE k \in valid : \A j \in valid : j <= k]
        ELSE IF reply.found # {} THEN valid_intents[first]
        ELSE NoIntent

\* _classify_intent, lines 146-153: the intent the LLM gives; none without a handler,
\* when generate raises, or when the reply holds no intent
LLMIntent(behaviour) ==
    IF behaviour = None \/ behaviour.kind = "raise" THEN NoIntent
    ELSE LLMClassifyIntent(behaviour)

\* QueryAnalyzer.analyze; llm_intent is the intent read from the LLM's reply
Analyze(q, llm_intent) ==
    LET intent == IF llm_intent # NoIntent THEN llm_intent ELSE q.rule_intent
    IN  [complexity |-> q.complexity,
         intent |-> intent,
         entities |-> q.entities,
         requires_multiple_tools |->
             \/ q.complexity = "complex"
             \/ q.multiple
             \/ q.complexity = "moderate" /\ intent \in {"comparison", "calculation"},
         keywords |-> q.keywords]

(***************************************************************************)
(* AgenticOrchestrator: selection, plan, context.                          *)
(***************************************************************************)
GetAllByName(d, tool_names) ==
    [i \in DOMAIN tool_names |-> PlanTool(tool_names[i], DefaultConfidence)]

\* ToolRegistry.get_tools_by_name: the named tools that are registered, in the order
\* of the names
GetToolsByName(d, tool_names) ==
    SelectSeq([i \in DOMAIN tool_names |-> PlanTool(tool_names[i], DefaultConfidence)],
              LAMBDA t : Registered(t.name, d))

MinToolConfidence == 300

\* the registered tools whose can_handle reaches min_confidence, by confidence
\* descending; sort is stable, so ties stay in registration order.  A can_handle that
\* raises leaves its tool out: web_search compares context['internal_confidence']
\* with 0.5, which raises TypeError when the caller's context holds a string there
GetSuitableTools(d, q, ctx, min_confidence) ==
    LET raises(i) == /\ ToolOrder[i] = "web_search"
                     /\ "internal_confidence" \in DOMAIN ctx
                     /\ ~IsNum(ctx.internal_confidence)
        suitable == {i \in DOMAIN ToolOrder :
                        /\ Registered(ToolOrder[i], d)
                        /\ ~raises(i)
                        /\ q.can_handle[i] >= min_confidence}
        Ahead(i) == {j \in suitable : \/ q.can_handle[j] > q.can_handle[i]
                                      \/ q.can_handle[j] = q.can_handle[i] /\ j < i}
    IN  [k \in 1..Cardinality(suitable) |->
            LET i == CHOOSE i \in suitable : Cardinality(Ahead(i)) = k - 1
            IN  PlanTool(ToolOrder[i], q.can_handle[i])]

\* what llm_handler.generate may answer to the tool selection prompt: the tool_names
\* that json.loads reads between the first [ and the last ]
ToolSelectionReplies == {<<"web_search">>, <<"calculator", "web_search">>}

\* _llm_tool_selection: the loop over self.tool_registry.tools walks the keys of a
\* dict, and a key is a str without .name: with any tool registered the AttributeError
\* is caught at line 374 before the handler is asked, and [] is returned with no trace
\* entry; with an empty registry the reply is parsed and looked up
LLMToolSelection(d, tool_names) ==
    IF \E i \in DOMAIN ToolOrder : Registered(ToolOrder[i], d)
    THEN <<>>
    ELSE GetToolsByName(d, tool_names)

\* _select_tools: the first rule that applies and finds a registered tool; with no
\* such rule, the tools that say they can handle the query; with none of these and a
\* handler (use_llm_fallback is True unless the constructor is told otherwise), the
\* tools of _llm_tool_selection; else semantic_search
SelectTools(q, an, ctx, d, tool_names) ==
    LET m == q.mentions
        intent == an.intent
        complexity == an.complexity
        rules == <<
            [when |-> "url" \in m /\ "ingestion" \in m,
             tools |-> <<"url_ingestion">>],
            [when |-> intent = "comparison" \/ "comparison" \in m,
             tools |-> <<"comparison", "semantic_search">>],
            [when |-> intent = "calculation" \/ "calculation" \in m,
             tools |-> <<"calculator", "semantic_search">>],
            [when |-> intent = "summarization" \/ "summarization" \in m,
             tools |-> <<"semantic_search", "summarization">>],
            [when |-> intent = "external" \/ "external" \in m,
             tools |-> <<"semantic_search", "web_search">>],
            [when |-> complexity = "simple",
             tools |-> <<"semantic_search">>],
            [when |-> complexity = "complex" \/ an.requires_multiple_tools,
             tools |-> <<"semantic_search", "keyword_search">>],
            [when |-> complexity = "moderate",
             tools |-> <<"semantic_search", "keyword_search">>] >>
        hits == {i \in DOMAIN rules :
                    rules[i].when /\ GetToolsByName(d, rules[i].tools) # <<>>}
        suitable == GetSuitableTools(d, q, ctx, MinToolConfidence)
    IN  IF hits # {}
        THEN GetToolsByName(d, rules[CHOOSE i \in hits : \A j \in hits : i <= j].tools)
        ELSE IF suitable # <<>> THEN suitable
        ELSE IF d.llm_handler THEN LLMToolSelection(d, tool_names)
        ELSE GetToolsByName(d, <<"semantic_search">>)

\* every tool list run one tool after the other
SequentialPlan(tools, an) == ExecutionPlan(SEQUENTIAL, tools, NoConditions)

\* _create_execution_plan
CreateExecutionPlan(tools, an) ==
    LET complexity == an.complexity
        intent == an.intent
        tool_names == {tools[i].name : i \in DOMAIN tools}
    IN  IF complexity = "complex" /\ intent \in {"comparison", "calculation"}
        THEN ExecutionPlan(SEQUENTIAL, tools, NoConditions)
        ELSE IF intent = "summarization" \/ "summarization" \in tool_names
        THEN ExecutionPlan(SEQUENTIAL, tools, NoConditions)
        ELSE IF Len(tools) > 1 /\ intent = "factual"
        THEN ExecutionPlan(PARALLEL, tools, NoConditions)
        ELSE IF intent = "external"
        THEN ExecutionPlan(CONDITIONAL, tools,
                 IF Len(tools) > 1 /\ tools[2].name = "web_search"
                 THEN [web_search |-> [max_confidence |-> 500]]
                 ELSE NoConditions)
        ELSE IF an.requires_multiple_tools
        THEN ExecutionPlan(CONDITIONAL, tools,
                 IF Len(tools) > 1
                 THEN tools[2].name :> [min_confidence |-> 0, max_citations |-> 3]
                 ELSE NoConditions)
        ELSE ExecutionPlan(SEQUENTIAL, tools, NoConditions)

\* _build_execution_context; the session context of a caller without one is <<>>
BuildExecutionContext(q, an, session_context, d) ==
    [k \in {k \in {"retriever", "qa_chain", "llm_handler"} : d[k]} |-> k]
    @@ session_context
    @@ [query |-> q.text, complexity |-> an.complexity, intent |-> an.intent,
        entities |-> an.entities, keywords |-> an.keywords]

(***************************************************************************)
(* AgenticOrchestrator: responses.                                         *)
(***************************************************************************)
\* AgenticResponse(answer, sources, metadata); reasoning_trace starts as a list of
\* its own.  shares_trace tells that reasoning_trace is the very list the
\* orchestrator holds in self.reasoning_trace.
AgenticResponse(answer, sources, metadata) ==
    [answer |-> answer, sources |-> sources, reasoning_trace |-> <<>>,
     metadata |-> metadata, mode |-> "agentic", shares_trace |-> FALSE]

RECURSIVE Join(_, _)
\* sep.join(strings)
Join(strings, sep) ==
    IF strings = <<>> THEN ""
    ELSE IF Len(strings) = 1 THEN strings[1]
    ELSE strings[1] \o sep \o Join(Tail(strings), sep)

\* str(value) of the data a tool returns
RECURSIVE PyStr(_, _)
PyStr(value, quoted) ==
    CASE value.kind = "none" -> "None"
      [] value.kind = "num" -> FloatRepr(value.v)
      [] value.kind = "str" -> IF quoted THEN "'" \o value.s \o "'" ELSE value.s
      [] value.kind = "list" ->
           "[" \o Join([i \in DOMAIN value.items |->
                           IF value.items[i] \in STRING
                           THEN "'" \o value.items[i] \o "'"
                           ELSE PyStr(value.items[i], TRUE)], ", ") \o "]"
      [] value.kind = "dict" ->
           "{" \o Join([i \in DOMAIN value.items |->
                           "'" \o value.items[i][1] \o "': "
                           \o PyStr(value.items[i][2], TRUE)], ", ") \o "}"

\* a value Python takes as true
Truthy(value) ==
    CASE value.kind = "none" -> FALSE
      [] value.kind = "num" -> value.v # 0
      [] value.kind = "str" -> value.s # ""
      [] OTHER -> value.items # <<>>

AllFailedPrefix == "I couldn't find an answer to your query."

\* the answers of qa_chain.process_query: one with an answer, one without
ChainAnswers == {Str("chain answer"), None}

KBAlwaysRelevant(kb_confidence) == TRUE

\* line 630: the knowledge base had relevant results
KBRelevant(kb_confidence) == kb_confidence.v > 300

\* _extract_answer(merged, ...); chain_answer is what qa_chain.process_query gives
ExtractAnswer(result, d, chain_answer) ==
    LET data == result.data
        has(key) == IsDict(data) /\ key \in Keys(data.items)
        tools_used == Range(Get(result.metadata, "tools_used", <<>>))
        has_kb == "semantic_search" \in tools_used \/ "keyword_search" \in tools_used
        has_web == "web_search" \in tools_used
        kb_confidence == Get(result.metadata, "kb_confidence", Num(0))
        answers == Lookup(data.items, "answers").items
        joined == Join([i \in DOMAIN answers |-> answers[i].s], "\n\n")
    IN  IF has("answer") THEN Lookup(data.items, "answer").s
        ELSE IF has("answers")
        THEN IF has_web /\ has_kb
             THEN (IF KBRelevant(kb_confidence)
                   THEN "**Answer synthesized from internal documents and external sources:**\n\n"
                   ELSE "**Answer from external sources** (internal documents had low relevance):\n\n")
                  \o joined
             ELSE IF has_web THEN "**Answer from external sources:**\n\n" \o joined
             ELSE joined
        ELSE IF (Truthy(data) \/ result.citations # <<>>) /\ d.qa_chain
                /\ chain_answer # None
        THEN chain_answer.s
        ELSE IF Truthy(data) THEN PyStr(data, FALSE)
        ELSE "No answer available."

\* a variant that reports the first failure only
FirstErrorMessage(rs) ==
    LET with_error == SelectSeq(rs, LAMBDA r : Truthy(r.error))
    IN  IF with_error = <<>> THEN <<>> ELSE <<with_error[1].error.s>>

\* the error messages of the results that carry one
ErrorMessages(rs) ==
    LET with_error == SelectSeq(rs, LAMBDA r : Truthy(r.error))
    IN  [i \in DOMAIN with_error |-> with_error[i].error.s]

\* lines 542-546: the confidence of the first successful knowledge base search
KBConfidence(successful) ==
    LET kb == {i \in DOMAIN successful :
                  Get(successful[i].metadata, "tool", "") \in
                      {"semantic_search", "keyword_search"}}
    IN  IF kb = {} THEN Num(0)
        ELSE Get(successful[CHOOSE i \in kb : \A j \in kb : i <= j].metadata,
                 "confidence", Num(0))

\* lines 539-550: the merged result with kb_confidence in its metadata
Merged(rs) ==
    LET successful == SelectSeq(rs, IsSuccess)
        m == MergeResults(successful)
        kb_confidence == KBConfidence(successful)
    IN  IF successful = <<>> THEN None
        ELSE IF kb_confidence # Num(0)
        THEN [m EXCEPT !.metadata = Put(@, "kb_confidence", kb_confidence)]
        ELSE m

\* _synthesize_response
SynthesizeResponse(rs, an, d, chain_answer) ==
    LET attempted_tools == [i \in DOMAIN rs |-> Get(rs[i].metadata, "tool", "unknown")]
        successful == SelectSeq(rs, IsSuccess)
        failed == SelectSeq(rs, LAMBDA r : ~r.success)
        kb_confidence == KBConfidence(successful)
    IN  IF successful = <<>>
        THEN AgenticResponse(
                 AllFailedPrefix \o " Errors: " \o Join(ErrorMessages(rs), "; "),
                 <<>>,
                 [all_tools_failed |-> TRUE, attempted_tools |-> attempted_tools])
        ELSE AgenticResponse(
                 ExtractAnswer(Merged(rs), d, chain_answer),
                 Merged(rs).citations,
                 [tools_used |-> Get(Merged(rs).metadata, "tools_used", <<>>),
                  attempted_tools |-> attempted_tools,
                  failed_tools |-> [i \in DOMAIN failed |->
                                       IF "tool" \in DOMAIN failed[i].metadata
                                       THEN Str(failed[i].metadata.tool) ELSE None],
                  result_count |-> Len(successful),
                  complexity |-> an.complexity,
                  intent |-> an.intent,
                  kb_confidence |-> IF kb_confidence # Num(0) THEN kb_confidence
                                    ELSE None])

\* _handle_conversational: the answer by the greeting found in the query
ConversationalAnswer(q) ==
    CASE q.greeting = "hello" ->
           "Hello! I'm Cortex. How can I help you today? You can ask me questions about your documents."
      [] q.greeting = "thanks" ->
           "You're welcome! Feel free to ask if you need anything else."
      [] q.greeting = "bye" ->
           "Goodbye! Come back anytime you need help with your documents."
      [] q.greeting = "ok" -> "Great! Let me know if you have any questions."
      [] OTHER ->
           "I'm here to help! You can ask me about your documents or tell me your preferences."

FallbackResponse(reason) ==
    AgenticResponse("I apologize, but I cannot process this query. Reason: " \o reason,
                    <<>>, [fallback |-> TRUE, reason |-> reason])

ErrorAsFallback(error) ==
    AgenticResponse("I apologize, but I cannot process this query. Reason: " \o error,
                    <<>>, [fallback |-> TRUE, reason |-> error])

\* _error_response
ErrorResponse(error) ==
    AgenticResponse("An error occurred while processing your query: " \o error,
                    <<>>, [error |-> TRUE, error_message |-> error])

(***************************************************************************)
(* AgenticOrchestrator.process_query, one step per access to the fields of *)
(* the orchestrator and of its engine.                                     *)
(***************************************************************************)
engineVars ==
    <<max_parallel_workers, execution_trace, current_context, results, idx, futures,
      history>>

\* the responses after self.reasoning_trace has become `trace`: a response that
\* holds that list shows it; `mine` is the response of caller q
Responses(trace, q, mine) ==
    [r \in Threads |->
        IF r = q THEN mine
        ELSE IF response[r] # NoResponse /\ response[r].shares_trace
        THEN [response[r] EXCEPT !.reasoning_trace = trace]
        ELSE response[r]]

\* self.reasoning_trace.append(...) / extend(...)
TraceAppend(q, entries) ==
    /\ reasoning_trace' = reasoning_trace \o entries
    /\ response' = Responses(reasoning_trace \o entries, q, response[q])

\* line 137: self.reasoning_trace = [], a new list; responses keep the old one
ProcessQueryStart(q) ==
    /\ pc[q] = "process_query"
    /\ reasoning_trace' = <<>>
    /\ response' = [r \in Threads |->
                       IF response[r] # NoResponse
                       THEN [response[r] EXCEPT !.shares_trace = FALSE]
                       ELSE response[r]]
    /\ pc' = Set(pc, q, "analyze")
    /\ UNCHANGED <<engineVars, returned_trace, llm_response,
                   deps, query, analysis, plan, context, merged>>

\* lines 141-156: analyze and record the analysis
AnalyzeQuery(q) ==
    /\ pc[q] = "analyze"
    /\ \E behaviour \in IF deps.llm_handler THEN LLMBehaviours ELSE {None} :
          LET a == Analyze(query[q].query, LLMIntent(behaviour))
          IN  /\ llm_response' = Set(llm_response, q, behaviour)
              /\ analysis' = Set(analysis, q, a)
              /\ TraceAppend(q, <<[step |-> "query_analysis",
                                   complexity |-> a.complexity,
                                   intent |-> a.intent,
                                   requires_multiple_tools |-> a.requires_multiple_tools]>>)
              /\ pc' = Set(pc, q, IF a.intent = "conversational"
                                  THEN "conversational" ELSE "select")
    /\ UNCHANGED <<engineVars, returned_trace, deps, query, plan, context, merged>>

\* _handle_conversational, and the return of its response at line 156
HandleConversational(q) ==
    /\ pc[q] = "conversational"
    /\ LET trace == Append(reasoning_trace,
                           [step |-> "conversational_response",
                            type |-> "greeting/acknowledgment",
                            no_tools_used |-> TRUE])
       IN  /\ reasoning_trace' = trace
           /\ response' = Responses(trace, q,
                  AgenticResponse(ConversationalAnswer(query[q].query), <<>>,
                                  [intent |-> "conversational", response_time_ms |-> 0]))
    /\ pc' = Set(pc, q, "done")
    /\ UNCHANGED <<engineVars, returned_trace, llm_response,
                   deps, query, analysis, plan, context, merged>>

\* lines 159-171: select the tools; without any, return the fallback response
SelectToolsStep(q) ==
    /\ pc[q] = "select"
    /\ \E tool_names \in ToolSelectionReplies :
          LET selected_tools == SelectTools(query[q].query, analysis[q],
                                            query[q].session_context, deps, tool_names)
              by_llm == LLMToolSelection(deps, tool_names)
              \* lines 366-371: _llm_tool_selection records what it selected
              llm_event == IF by_llm # <<>> /\ selected_tools = by_llm
                           THEN <<[step |-> "llm_tool_selection",
                                   selected_tools |-> tool_names]>>
                           ELSE <<>>
          IN  IF selected_tools = <<>>
              THEN /\ response' = Set(response, q,
                          FallbackResponse("No suitable tools found for this query"))
                   /\ pc' = Set(pc, q, "done")
                   /\ UNCHANGED reasoning_trace
              ELSE /\ TraceAppend(q, llm_event \o <<[step |-> "tool_selection",
                                                     tools |-> selected_tools,
                                                     selection_method |-> "hybrid"]>>)
                   /\ pc' = Set(pc, q, "plan")
    /\ UNCHANGED <<engineVars, returned_trace, llm_response,
                   deps, query, analysis, plan, context, merged>>

\* lines 179-188: the plan, its trace event and the context of the execution
CreatePlanStep(q) ==
    /\ pc[q] = "plan"
    /\ \E tool_names \in ToolSelectionReplies :
          LET selected_tools == SelectTools(query[q].query, analysis[q],
                                            query[q].session_context, deps, tool_names)
              p == CreateExecutionPlan(selected_tools, analysis[q])
          IN  /\ selected_tools # <<>>
              /\ plan' = Set(plan, q, p)
              /\ TraceAppend(q, <<[step |-> "execution_plan", strategy |-> p.strategy,
                                   tool_count |-> Len(p.tools)]>>)
    /\ context' = Set(context, q,
           BuildExecutionContext(query[q].query, analysis[q], query[q].session_context,
                                 deps))
    /\ pc' = Set(pc, q, "execute")
    /\ UNCHANGED <<engineVars, returned_trace, llm_response,
                   deps, query, analysis, merged>>

\* line 192: the engine's trace, as it is now, goes to the end of the reasoning trace
CollectTrace(q) ==
    /\ pc[q] = "returned"
    /\ TraceAppend(q, execution_trace)
    /\ pc' = Set(pc, q, "synthesize")
    /\ UNCHANGED <<engineVars, returned_trace, llm_response,
                   deps, query, analysis, plan, context, merged>>

\* lines 195-202: the response, holding the list self.reasoning_trace
Synthesize(q) ==
    /\ pc[q] = "synthesize"
    /\ \E chain_answer \in ChainAnswers :
          response' = Set(response, q,
              [SynthesizeResponse(results[q], analysis[q], deps, chain_answer)
                  EXCEPT !.reasoning_trace = reasoning_trace, !.shares_trace = TRUE])
    /\ merged' = Set(merged, q, Merged(results[q]))
    /\ results' = Set(results, q, InputsAfterMerge(results[q]))
    /\ pc' = Set(pc, q, "done")
    /\ UNCHANGED <<max_parallel_workers, execution_trace, current_context, idx, futures,
                   history, returned_trace, llm_response,
                   reasoning_trace, deps, query, analysis, plan, context>>

\* str(e) of the exception that left execute
RaisedError(q) ==
    IF plan[q].strategy = PARALLEL THEN "max_workers must be greater than 0"
    ELSE CheckConditions(Tool(q).name, plan[q].conditions, results[q],
                         current_context[q]).error

\* lines 204-206: an exception inside the try becomes the error response
HandleException(q) ==
    /\ pc[q] = "raised"
    /\ response' = Set(response, q, ErrorResponse(RaisedError(q)))
    /\ pc' = Set(pc, q, "done")
    /\ UNCHANGED <<engineVars, returned_trace, llm_response,
                   reasoning_trace, deps, query, analysis, plan, context,
                   merged>>

ProcessQuery(q) ==
    \/ ProcessQueryStart(q)
    \/ AnalyzeQuery(q)
    \/ HandleConversational(q)
    \/ SelectToolsStep(q)
    \/ CreatePlanStep(q)
    \/ CollectTrace(q)
    \/ Synthesize(q)
    \/ HandleException(q)

(***************************************************************************)
(* One caller of process_query: every query of the catalog, with and       *)
(* without a session context, on every orchestrator that has a retriever.  *)
(***************************************************************************)
NoSession == <<>>

SessionContexts == {NoSession, [context_documents |-> List(<<"policy.pdf">>)]}

\* session contexts for tool selection: also one whose internal_confidence is a word,
\* as the chains of this repository report confidence
SelectContexts == SessionContexts \cup {[internal_confidence |-> Str("high")]}

Dependencies == [retriever : {TRUE}, qa_chain : BOOLEAN, llm_handler : BOOLEAN]

NoQuery == None

InitOrchestrator ==
    /\ deps \in Dependencies
    /\ max_parallel_workers = DefaultWorkers
    /\ execution_trace = <<>>
    /\ reasoning_trace = <<>>
    /\ analysis = [q \in Threads |-> None]
    /\ plan = [q \in Threads |-> NoPlan]
    /\ context = [q \in Threads |-> <<>>]
    /\ current_context = [q \in Threads |-> <<>>]
    /\ results = [q \in Threads |-> <<>>]
    /\ idx = [q \in Threads |-> 1]
    /\ futures = [q \in Threads |-> <<>>]
    /\ merged = [q \in Threads |-> None]
    /\ response = [q \in Threads |-> NoResponse]
    /\ history = [q \in Threads |-> <<>>]
    /\ returned_trace = [q \in Threads |-> None]
    /\ llm_response = [q \in Threads |-> None]

InitQuery ==
    /\ InitOrchestrator
    /\ query \in {Idle([query |-> q, session_context |-> s], NoQuery) :
                     q \in Queries, s \in SessionContexts}
    /\ pc = Idle("process_query", "idle")

NextQuery == ProcessQuery(1) \/ Engine(1)

SpecQuery == InitQuery /\ [][NextQuery]_vars


(***************************************************************************)
(* Analysis and tool selection on their own: every query of the catalog on *)
(* every orchestrator, with or without retriever, qa_chain and llm_handler.*)
(***************************************************************************)
Registries == [retriever : BOOLEAN, qa_chain : BOOLEAN, llm_handler : BOOLEAN]

InitSelect ==
    /\ deps \in Registries
    /\ query \in {Idle([query |-> q, session_context |-> s], NoQuery) :
                     q \in Queries, s \in SelectContexts}
    /\ pc = Idle("process_query", "idle")
    /\ max_parallel_workers = DefaultWorkers
    /\ execution_trace = <<>>
    /\ reasoning_trace = <<>>
    /\ analysis = [q \in Threads |-> None]
    /\ plan = [q \in Threads |-> NoPlan]
    /\ context = [q \in Threads |-> <<>>]
    /\ current_context = [q \in Threads |-> <<>>]
    /\ results = [q \in Threads |-> <<>>]
    /\ idx = [q \in Threads |-> 1]
    /\ futures = [q \in Threads |-> <<>>]
    /\ merged = [q \in Threads |-> None]
    /\ response = [q \in Threads |-> NoResponse]
    /\ history = [q \in Threads |-> <<>>]
    /\ returned_trace = [q \in Threads |-> None]
    /\ llm_response = [q \in Threads |-> None]

NextSelect ==
    \/ ProcessQueryStart(1)
    \/ AnalyzeQuery(1)
    \/ HandleConversational(1)
    \/ SelectToolsStep(1)
    \/ CreatePlanStep(1)

SpecSelect == InitSelect /\ [][NextSelect]_vars


(***************************************************************************)
(* _synthesize_response on its own: every list of up to MaxTools results   *)
(* that the tools of SynthesizeTools return, on an orchestrator with and   *)
(* without a qa_chain.                                                     *)
(***************************************************************************)
SynthesizeTools == {"semantic_search", "keyword_search", "summarization", "web_search",
                    "calculator"}

SynthesizeInputs ==
    UNION {{o.result : o \in {x \in Execute(name, [context_documents |->
                                                      List(<<"policy.pdf">>)]) :
                                 x.kind = "return"}} : name \in SynthesizeTools}

InitSynthesize ==
    /\ deps \in {d \in Dependencies : ~d.llm_handler}
    /\ \E q \in {x \in Queries : x.text = "What is the latest news today?"} :
          /\ query = Idle([query |-> q, session_context |-> NoSession], NoQuery)
          /\ analysis = Idle(Analyze(q, NoIntent), None)
    /\ results \in {Idle(rs, <<>>) : rs \in SeqsUpTo(SynthesizeInputs, MaxTools)}
    /\ pc = Idle("synthesize", "idle")
    /\ max_parallel_workers = DefaultWorkers
    /\ execution_trace = <<>>
    /\ reasoning_trace = <<>>
    /\ plan = [q \in Threads |-> NoPlan]
    /\ context = [q \in Threads |-> <<>>]
    /\ current_context = [q \in Threads |-> <<>>]
    /\ idx = [q \in Threads |-> 1]
    /\ futures = [q \in Threads |-> <<>>]
    /\ merged = [q \in Threads |-> None]
    /\ response = [q \in Threads |-> NoResponse]
    /\ history = [q \in Threads |-> <<>>]
    /\ returned_trace = [q \in Threads |-> None]
    /\ llm_response = [q \in Threads |-> None]

NextSynthesize == Synthesize(1)

SpecSynthesize == InitSynthesize /\ [][NextSynthesize]_vars


(***************************************************************************)
(* Two callers of process_query on one orchestrator, each thread taking    *)
(* its steps in any order with the other's.  The queries are a factual one *)
(* (a Sequential plan) and the greeting; the orchestrator has a retriever. *)
(***************************************************************************)
ConcurrentQueries ==
    {q \in Queries : q.text \in {"hi", "What is our remote work policy?"}}

InitConcurrent ==
    /\ InitOrchestrator
    /\ ~deps.llm_handler
    /\ ~deps.qa_chain
    /\ \E q1 \in {q \in ConcurrentQueries : q.rule_intent = "factual"},
          q2 \in ConcurrentQueries :
          query = [q \in Threads |->
                      [query |-> IF q = 1 THEN q1 ELSE q2, session_context |-> NoSession]]
    /\ pc = [q \in Threads |-> "process_query"]

ConcurrentStep(q) ==
    \/ ProcessQueryStart(q)
    \/ AnalyzeQuery(q)
    \/ HandleConversational(q)
    \/ SelectToolsStep(q)
    \/ CreatePlanStep(q)
    \/ ExecuteCall(q)
    \/ ExecuteSequentialCall(q)
    \/ ExecuteSequentialReturn(q)
    \/ ExecuteSequentialDone(q)
    \/ CollectTrace(q)
    \/ Synthesize(q)

NextConcurrent == \E q \in Threads : ConcurrentStep(q)

SpecConcurrent == InitConcurrent /\ [][NextConcurrent]_vars


(***************************************************************************)
(* merge_results on its own: the results are any list a plan of MaxTools   *)
(* tools can produce, with citations that share pages and differ in score. *)
(***************************************************************************)
MaxCitations == 2

MergeCitations ==
    {Citation("policy.pdf", 1, 300), Citation("policy.pdf", 1, 900),
     Citation("handbook.pdf", 1, 500)}

MergeInputs ==
    {ToolResult(TRUE, Dict(<<>>), None, [tool |-> "semantic_search"], cs) :
        cs \in SeqsUpTo(MergeCitations, MaxCitations)}
    \cup {ToolResult(FALSE, None, Str("Web search failed"), [tool |-> "web_search"], <<>>)}

\* merged = self.execution_engine.merge_results(results)
MergeResultsCall(q) ==
    /\ pc[q] = "merge"
    /\ merged' = Set(merged, q, MergeResults(results[q]))
    /\ results' = Set(results, q, InputsAfterMerge(results[q]))
    /\ pc' = Set(pc, q, "merged")
    /\ UNCHANGED <<max_parallel_workers, execution_trace, plan, context, current_context,
                   idx, futures, history, reasoning_trace,
                   deps, query, analysis, response, returned_trace,
                   llm_response>>

InitMerge ==
    /\ results \in {Idle(rs, <<>>) : rs \in SeqsUpTo(MergeInputs, MaxTools)}
    /\ pc = Idle("merge", "idle")
    /\ plan = [q \in Threads |-> NoPlan]
    /\ context = [q \in Threads |-> <<>>]
    /\ max_parallel_workers = DefaultWorkers
    /\ execution_trace = <<>>
    /\ reasoning_trace = <<>>
    /\ deps = [retriever |-> TRUE, qa_chain |-> TRUE, llm_handler |-> TRUE]
    /\ query = [q \in Threads |-> None]
    /\ analysis = [q \in Threads |-> None]
    /\ current_context = [q \in Threads |-> <<>>]
    /\ idx = [q \in Threads |-> 1]
    /\ futures = [q \in Threads |-> <<>>]
    /\ merged = [q \in Threads |-> None]
    /\ response = [q \in Threads |-> NoResponse]
    /\ history = [q \in Threads |-> <<>>]
    /\ returned_trace = [q \in Threads |-> None]
    /\ llm_response = [q \in Threads |-> None]

NextMerge == MergeResultsCall(1)

SpecMerge == InitMerge /\ [][NextMerge]_vars


(***************************************************************************)
(* Properties of ExecutionEngine.execute, for the one caller of SpecEngine *)
(* and SpecQuery.                                                          *)
(***************************************************************************)
\* the caller the properties of one execute are stated for
E == CHOOSE q \in Threads : \A r \in Threads : q <= r

IsCall(e) == e.event = "call"

IsEnd(e) == e.event = "end"

Called(q, i) == \E k \in DOMAIN history[q] : IsCall(history[q][k]) /\ history[q][k].index = i

Ended(q, i) == \E k \in DOMAIN history[q] : IsEnd(history[q][k]) /\ history[q][k].index = i

\* the tools whose execute has been entered and has not ended
InFlight(q) == {i \in DOMAIN plan[q].tools : Called(q, i) /\ ~Ended(q, i)}

\* how many calls of execute have ended among the first k events
EndsUpTo(q, k) == Cardinality({j \in 1..k : IsEnd(history[q][j])})

Steps(step) == {k \in DOMAIN execution_trace : execution_trace[k].step = step}

Skipped(name) ==
    \E k \in Steps("skip_tool") : execution_trace[k].tool = name

Min(a, b) == IF a <= b THEN a ELSE b

IsFailureOf(r, name, msg) ==
    /\ ~r.success
    /\ r.error = Str(msg)
    /\ DOMAIN r.metadata = {"tool"}
    /\ r.metadata.tool = name

\* the engine has taken the outcome of history[q][k] into results
Gathered(q, k) ==
    plan[q].strategy = PARALLEL => futures[q][history[q][k].index].yielded

RaisedAt(q, k) == IsEnd(history[q][k]) /\ history[q][k].outcome.kind = "raise"

KeptResult(e, r) ==
    IF e.outcome.kind = "raise"
    THEN IsFailureOf(r, e.tool, e.outcome.error)
    ELSE r = e.outcome.result

OutcomeSteps == {"tool_success", "tool_failure", "tool_error"}

\* C2: Sequential runs the tools in plan order, one at a time; results are in plan
\* order; the trace pairs one execute_tool with one outcome event per tool run.
C2_SequentialOrder ==
    plan[E].strategy = SEQUENTIAL =>
        /\ \A k \in DOMAIN history[E] :
              LET i == (k + 1) \div 2
              IN  /\ history[E][k].event = (IF k % 2 = 1 THEN "call" ELSE "end")
                  /\ history[E][k].index = i
                  /\ history[E][k].tool = plan[E].tools[i].name
        /\ Cardinality(InFlight(E)) <= 1
        /\ Len(results[E]) = EndsUpTo(E, Len(history[E]))
        /\ \A i \in DOMAIN results[E] : KeptResult(history[E][2 * i], results[E][i])
        /\ Len(execution_trace) = Len(history[E])
        /\ \A k \in DOMAIN execution_trace :
              /\ execution_trace[k].tool = plan[E].tools[(k + 1) \div 2].name
              /\ IF k % 2 = 1 THEN execution_trace[k].step = "execute_tool"
                 ELSE execution_trace[k].step \in OutcomeSteps
        /\ pc[E] = "returned" => Len(results[E]) = Len(plan[E].tools)

C2_Witness ==
    /\ plan[E].strategy = SEQUENTIAL
    /\ pc[E] = "returned"
    /\ Len(results[E]) = 2
    /\ results[E][1].success
    /\ ~results[E][2].success

\* C3: in Parallel at most min(n, w) calls of execute are in flight.
C3_InFlightBound ==
    plan[E].strategy = PARALLEL =>
        Cardinality(InFlight(E)) <= Min(Len(plan[E].tools), max_parallel_workers)

\* the pool is what holds a submitted call back
C3_Witness ==
    /\ plan[E].strategy = PARALLEL
    /\ max_parallel_workers < Len(plan[E].tools)
    /\ Cardinality(InFlight(E)) = max_parallel_workers
    /\ Pending(E) # {}

\* the results execute holds when the loop reaches tool i
ResultsBefore(q, i) ==
    SubSeq(results[q], 1, Cardinality({j \in 1..(i - 1) : Ended(q, j)}))

\* the loop of _execute_conditional has dealt with tool i
Decided(q, i) == i < idx[q] \/ (i = idx[q] /\ pc[q] = "conditional_wait")

\* where the loop writes its first trace event about tool i
TraceStart(q, i) == i + Cardinality({j \in 1..(i - 1) : Called(q, j)})

HighConfidenceBefore(q, i) ==
    LET T == plan[q].tools[i].name
        before == ResultsBefore(q, i)
        last == before[Len(before)]
    IN  /\ plan[q].strategy = CONDITIONAL
        /\ T \in DOMAIN plan[q].conditions
        /\ DOMAIN plan[q].conditions[T] = {"max_confidence"}
        /\ Decided(q, i)
        /\ before # <<>>
        /\ last.success
        /\ "confidence" \in DOMAIN last.metadata
        /\ IsNum(last.metadata.confidence)
        /\ last.metadata.confidence.v >= plan[q].conditions[T].max_confidence

\* the reasons the threshold 0.5 gives, written out
C4_Reason(confidence) ==
    CASE confidence = 500 -> "confidence 0.500 >= 0.5"
      [] confidence = 800 -> "confidence 0.800 >= 0.5"
      [] confidence = 900 -> "confidence 0.900 >= 0.5"
      [] OTHER -> "none"

\* C4: a Conditional tool T under {max_confidence: theta} that follows a successful
\* result of confidence >= theta is not called: one skip_tool event names the
\* confidence and the threshold, and T adds nothing to results or tools_used.
C4_SkippedOnHighConfidence ==
    \A i \in DOMAIN plan[E].tools :
        HighConfidenceBefore(E, i) =>
            LET T == plan[E].tools[i].name
                before == ResultsBefore(E, i)
                confidence == before[Len(before)].metadata.confidence.v
                t == TraceStart(E, i)
            IN  /\ ~Called(E, i)
                /\ t \in DOMAIN execution_trace
                /\ execution_trace[t] =
                      [step |-> "skip_tool", tool |-> T, reason |-> C4_Reason(confidence)]
                /\ Len(results[E]) = Cardinality({j \in DOMAIN plan[E].tools : Ended(E, j)})
                /\ (pc[E] = "returned" /\ \A j \in DOMAIN plan[E].tools :
                                             plan[E].tools[j].name = T => j = i) =>
                      LET used == MergeResults(results[E]).metadata.tools_used
                      IN  \A k \in DOMAIN used : used[k] # T

\* the confidence equals the threshold and the fallback is left out
C4_Witness ==
    /\ pc[E] = "returned"
    /\ Len(plan[E].tools) = 2
    /\ HighConfidenceBefore(E, 2)
    /\ results[E][1].metadata.confidence = Num(500)
    /\ plan[E].tools[2].name # plan[E].tools[1].name
    /\ Len(results[E]) = 1
    /\ Len(execution_trace) = 3

\* the places of the citations of the successful results, in concatenation order
CitationPlaces(rs) ==
    {<<i, p>> : i \in {j \in DOMAIN rs : rs[j].success},
                p \in 1..MaxCitations + 1} \cap
    {ip \in (DOMAIN rs) \X (1..MaxCitations + 1) : ip[2] \in DOMAIN rs[ip[1]].citations}

Earlier(a, b) == a[1] < b[1] \/ (a[1] = b[1] /\ a[2] < b[2])

SamePage(c, d) == c.document = d.document /\ c.page_number = d.page_number

\* the citations that are the first of their (document, page_number)
FirstOfPage(rs) ==
    {rs[a[1]].citations[a[2]] : a \in
        {a \in CitationPlaces(rs) :
            \A b \in CitationPlaces(rs) :
                SamePage(rs[a[1]].citations[a[2]], rs[b[1]].citations[b[2]])
                    => ~Earlier(b, a)}}

\* C5: with one success at least, the merged citations hold one citation per
\* (document, page_number), the first of the concatenation, by descending score.
C5_MergedCitations ==
    (pc[E] = "merged" /\ \E i \in DOMAIN results[E] : results[E][i].success) =>
        LET cs == merged[E].citations
        IN  /\ \A i, j \in DOMAIN cs : i < j =>
                  /\ ~SamePage(cs[i], cs[j])
                  /\ cs[i].confidence_score >= cs[j].confidence_score
            /\ Range(cs) = FirstOfPage(results[E])
            /\ Len(cs) = Cardinality(FirstOfPage(results[E]))

\* a later, better scored citation of the same page is dropped and the rest reordered
C5_Witness ==
    /\ pc[E] = "merged"
    /\ Len(results[E]) = 2
    /\ results[E][1].citations = <<Citation("policy.pdf", 1, 300)>>
    /\ results[E][2].citations =
          <<Citation("policy.pdf", 1, 900), Citation("handbook.pdf", 1, 500)>>
    /\ merged[E].citations =
          <<Citation("handbook.pdf", 1, 500), Citation("policy.pdf", 1, 300)>>

(***************************************************************************)
(* Properties of AgenticOrchestrator.process_query.                        *)
(***************************************************************************)
IsCollect(e) == e.event = "collect"

\* the calls of execute behind results[q], in the order of the results
Producers(q) ==
    IF plan[q].strategy = PARALLEL THEN SelectSeq(history[q], IsCollect)
    ELSE SelectSeq(history[q], IsEnd)

OutcomeOf(q, i) ==
    history[q][CHOOSE k \in DOMAIN history[q] :
                  IsEnd(history[q][k]) /\ history[q][k].index = i].outcome

HasFailed(outcome) == outcome.kind = "raise" \/ ~outcome.result.success

MessageOf(outcome) ==
    IF outcome.kind = "raise" THEN outcome.error ELSE outcome.result.error.s

\* process_query has returned a response made from tool results
Synthesized(q) ==
    /\ pc[q] = "done"
    /\ response[q] # NoResponse
    /\ "attempted_tools" \in DOMAIN response[q].metadata

\* the trace events a Sequential run of q's plan writes, from q's own calls
RECURSIVE OwnExecution(_, _)
OwnExecution(q, n) ==
    IF n = 0 THEN <<>>
    ELSE OwnExecution(q, n - 1) \o
         <<[step |-> "execute_tool", tool |-> plan[q].tools[n].name,
            confidence |-> plan[q].tools[n].confidence, strategy |-> "sequential"],
           Handled(plan[q].tools[n].name, OutcomeOf(q, n), "tool_success").entry>>

\* the trace events the query of q gives rise to
OwnTrace(q) ==
    <<[step |-> "query_analysis", complexity |-> analysis[q].complexity,
       intent |-> analysis[q].intent,
       requires_multiple_tools |-> analysis[q].requires_multiple_tools],
      [step |-> "tool_selection", tools |-> plan[q].tools, selection_method |-> "hybrid"],
      [step |-> "execution_plan", strategy |-> plan[q].strategy,
       tool_count |-> Len(plan[q].tools)]>>
    \o OwnExecution(q, Len(plan[q].tools))

\* C6: with two process_query calls running at once, the reasoning_trace of each
\* returned response holds exactly the events of its own query.
C6_TraceOfOwnQuery ==
    \A q \in Threads :
        (Synthesized(q) /\ plan[q].strategy = SEQUENTIAL) =>
            response[q].reasoning_trace = OwnTrace(q)

SummarizationCase ==
    /\ analysis[E] # None
    /\ analysis[E].intent = "summarization"
    /\ query[E].query.rule_intent = "summarization"
    /\ query[E].session_context = NoSession
    /\ deps.qa_chain

DocumentsRetrieved ==
    /\ Ended(E, 1)
    /\ OutcomeOf(E, 1).kind = "return"
    /\ OutcomeOf(E, 1).result.success
    /\ OutcomeOf(E, 1).result.citations # <<>>

\* C7: a summarization query runs Sequential [semantic_search, summarization]; after
\* a search that found documents, summarization is called with previous_result in
\* its context, succeeds on that context unless the chain itself fails, and its
\* answer is the answer of the response.
C7_SummarizationAnswers ==
    SummarizationCase =>
        /\ pc[E] \notin {"select", "plan"} =>
              /\ plan[E].strategy = SEQUENTIAL
              /\ [i \in DOMAIN plan[E].tools |-> plan[E].tools[i].name] =
                    <<"semantic_search", "summarization">>
        /\ DocumentsRetrieved =>
              /\ \A k \in DOMAIN history[E] :
                    (IsCall(history[E][k]) /\ history[E][k].index = 2) =>
                        "previous_result" \in DOMAIN history[E][k].context
              /\ Ended(E, 2) =>
                    \/ OutcomeOf(E, 2).kind = "raise"
                    \/ OutcomeOf(E, 2).result.success
                    \/ OutcomeOf(E, 2).result.error \in
                          {Str("chain failed"),
                           Str("Summarization generated empty response")}
              /\ (pc[E] = "done" /\ Ended(E, 2) /\ ~HasFailed(OutcomeOf(E, 2))) =>
                    response[E].answer =
                        Lookup(OutcomeOf(E, 2).result.data.items, "answer").s

\* C8: a query classified as conversational selects no tool, builds no plan, calls
\* no tool, and its response carries a trace with one conversational_response event.
C8_ConversationalBypass ==
    (pc[E] = "done" /\ analysis[E] # None /\ analysis[E].intent = "conversational") =>
        /\ plan[E] = NoPlan
        /\ history[E] = <<>>
        /\ \A k \in DOMAIN reasoning_trace :
              reasoning_trace[k].step \notin {"tool_selection", "execution_plan"}
        /\ Cardinality({k \in DOMAIN response[E].reasoning_trace :
                           response[E].reasoning_trace[k].step =
                               "conversational_response"}) = 1

\* every call of a tool has ended in a failure, and there was one
AllResultsFailed(q) ==
    /\ Producers(q) # <<>>
    /\ \A i \in DOMAIN plan[q].tools : Called(q, i) => Ended(q, i)
    /\ \A k \in DOMAIN history[q] :
          IsEnd(history[q][k]) => HasFailed(history[q][k].outcome)

\* C9: when every tool result is a failure, process_query returns a response with
\* all_tools_failed = true, no sources, and the answer "I couldn't find an answer to
\* your query." followed by the error messages of the results.
C9_AllToolsFailed ==
    AllResultsFailed(E) =>
        /\ pc[E] # "raised"
        /\ pc[E] = "done" =>
              LET ev == Producers(E)
                  errors == [i \in DOMAIN ev |-> MessageOf(OutcomeOf(E, ev[i].index))]
              IN  /\ "all_tools_failed" \in DOMAIN response[E].metadata
                  /\ response[E].metadata.all_tools_failed
                  /\ response[E].sources = <<>>
                  /\ SubSeq(response[E].answer, 1, Len(AllFailedPrefix)) = AllFailedPrefix
                  /\ response[E].answer =
                        "I couldn't find an answer to your query. Errors: "
                        \o Join(errors, "; ")

\* two tools failed, each with its own message
C9_Witness ==
    /\ pc[E] = "done"
    /\ AllResultsFailed(E)
    /\ Len(results[E]) = 2
    /\ results[E][1].error # results[E][2].error
    /\ response[E].reasoning_trace # <<>>

\* C10: the name lists of a synthesized response name the tools behind the results:
\* attempted_tools all of them, tools_used those that succeeded, failed_tools those
\* that failed, none of them 'unknown' or missing.
C10_ToolNames ==
    Synthesized(E) =>
        LET ev == Producers(E)
            names == [i \in DOMAIN ev |-> ev[i].tool]
            failed(i) == HasFailed(OutcomeOf(E, ev[i].index))
            used == SelectSeq([i \in DOMAIN ev |-> [tool |-> names[i], failed |-> failed(i)]],
                              LAMBDA x : ~x.failed)
            lost == SelectSeq([i \in DOMAIN ev |-> [tool |-> names[i], failed |-> failed(i)]],
                              LAMBDA x : x.failed)
            metadata == response[E].metadata
        IN  /\ metadata.attempted_tools = names
            /\ "tools_used" \in DOMAIN metadata =>
                  /\ metadata.tools_used = [i \in DOMAIN used |-> used[i].tool]
                  /\ metadata.failed_tools = [i \in DOMAIN lost |-> Str(lost[i].tool)]

\* the answers of the successful results, in the order of the results
AnswersOf(rs) ==
    LET with_answer == SelectSeq(rs, LAMBDA r : r.success /\ IsDict(r.data)
                                                /\ "answer" \in Keys(r.data.items))
    IN  [i \in DOMAIN with_answer |-> Lookup(with_answer[i].data.items, "answer").s]

\* the header the tool families of a response call for
HeaderOf(metadata) ==
    LET used == Range(metadata.tools_used)
        kb == "semantic_search" \in used \/ "keyword_search" \in used
        web == "web_search" \in used
        relevant == metadata.kb_confidence # None /\ metadata.kb_confidence.v > 300
    IN  IF kb /\ web /\ relevant
        THEN "**Answer synthesized from internal documents and external sources:**\n\n"
        ELSE IF kb /\ web
        THEN "**Answer from external sources** (internal documents had low relevance):\n\n"
        ELSE IF web THEN "**Answer from external sources:**\n\n"
        ELSE ""

\* C11: when the successful results carry answers, the answer of the response is the
\* header of the contributing tool families (knowledge base and web with
\* kb_confidence > 0.3, knowledge base and web with kb_confidence <= 0.3, web alone,
\* knowledge base alone: none) and then the answers in merge order, a blank line
\* between them.
C11_AnswerHeader ==
    (Synthesized(E) /\ AnswersOf(results[E]) # <<>>) =>
        response[E].answer =
            HeaderOf(response[E].metadata) \o Join(AnswersOf(results[E]), "\n\n")

\* the knowledge base scored exactly 0.3 and the web answered too
C11_Witness ==
    /\ Synthesized(E)
    /\ AnswersOf(results[E]) # <<>>
    /\ response[E].metadata.tools_used = <<"semantic_search", "web_search">>
    /\ response[E].metadata.kb_confidence = Num(300)
    /\ response[E].answer =
          "**Answer from external sources** (internal documents had low relevance):\n\n"
          \o "web answer"

\* the names of the tools of q's plan
PlanNames(q) == [i \in DOMAIN plan[q].tools |-> plan[q].tools[i].name]

\* the fifth selection rule gave the tools of the plan
ExternalRuleSelected ==
    /\ pc[E] \notin {"process_query", "analyze", "select", "plan"}
    /\ analysis[E] # None
    /\ analysis[E].intent = "external" \/ "external" \in query[E].query.mentions
    /\ PlanNames(E) = <<"semantic_search", "web_search">>

\* the search reported a confidence of 0.5 or more
StrongConfidence(outcome) ==
    /\ outcome.kind = "return"
    /\ "confidence" \in DOMAIN outcome.result.metadata
    /\ IsNum(outcome.result.metadata.confidence)
    /\ outcome.result.metadata.confidence.v >= 500

\* C12: with [semantic_search, web_search] selected by the external rule, web_search
\* is called only after semantic_search has ended, and not at all when
\* semantic_search reported a confidence of 0.5 or more.
C12_WebSearchIsFallback ==
    ExternalRuleSelected =>
        \A k \in DOMAIN history[E] :
            (IsCall(history[E][k]) /\ history[E][k].tool = "web_search") =>
                /\ \E j \in 1..(k - 1) :
                      IsEnd(history[E][j]) /\ history[E][j].tool = "semantic_search"
                /\ ~StrongConfidence(OutcomeOf(E, 1))

\* the tools _select_tools has returned, as the tool_selection event records them
SelectedTools == reasoning_trace[Len(reasoning_trace)].tools

\* the tool is in the registry of this orchestrator
InRegistry(name) ==
    CASE name \in {"semantic_search", "keyword_search"} -> deps.retriever
      [] name = "summarization" -> deps.qa_chain
      [] name = "comparison" -> deps.retriever /\ deps.llm_handler /\ deps.qa_chain
      [] name \in {"calculator", "web_search", "url_ingestion"} -> TRUE
      [] OTHER -> FALSE

\* rules 1 to 8: the trigger of each and the tools it names
SelectionRules ==
    LET an == analysis[E]
        m == query[E].query.mentions
    IN  <<[when |-> "url" \in m /\ "ingestion" \in m, names |-> <<"url_ingestion">>],
          [when |-> an.intent = "comparison" \/ "comparison" \in m,
           names |-> <<"comparison", "semantic_search">>],
          [when |-> an.intent = "calculation" \/ "calculation" \in m,
           names |-> <<"calculator", "semantic_search">>],
          [when |-> an.intent = "summarization" \/ "summarization" \in m,
           names |-> <<"semantic_search", "summarization">>],
          [when |-> an.intent = "external" \/ "external" \in m,
           names |-> <<"semantic_search", "web_search">>],
          [when |-> an.complexity = "simple", names |-> <<"semantic_search">>],
          [when |-> an.complexity = "complex" \/ an.requires_multiple_tools,
           names |-> <<"semantic_search", "keyword_search">>],
          [when |-> an.complexity = "moderate",
           names |-> <<"semantic_search", "keyword_search">>]>>

\* the rules whose trigger holds and that name a registered tool
RulesThatResolve ==
    {i \in DOMAIN SelectionRules :
        /\ SelectionRules[i].when
        /\ \E k \in DOMAIN SelectionRules[i].names : InRegistry(SelectionRules[i].names[k])}

\* the registered tools that give the query a confidence of min_tool_confidence or
\* more; a tool whose can_handle raises gives none
SuitableTools ==
    {i \in DOMAIN ToolOrder :
        /\ InRegistry(ToolOrder[i])
        /\ query[E].query.can_handle[i] >= 300
        /\ ~(/\ ToolOrder[i] = "web_search"
             /\ "internal_confidence" \in DOMAIN query[E].session_context
             /\ query[E].session_context.internal_confidence.kind # "num")}

EventsOf(q, i, Is(_)) ==
    {k \in DOMAIN history[q] : Is(history[q][k]) /\ history[q][k].index = i}

\* the tools in the order in which as_completed has yielded them
CollectOrder(q) ==
    LET collected == SelectSeq(history[q], IsCollect)
    IN  [k \in DOMAIN collected |-> collected[k].index]

\* what holds of a Parallel run whatever the order of the results: one call per tool,
\* each on the context the caller gave, one result per tool
ParallelBatch ==
    LET n == Len(plan[E].tools)
        order == CollectOrder(E)
    IN  /\ \A i \in 1..n : Cardinality(EventsOf(E, i, IsCall)) <= 1
        /\ \A k \in DOMAIN history[E] :
              IsCall(history[E][k]) =>
                  /\ history[E][k].context = context[E]
                  /\ "previous_result" \notin DOMAIN history[E][k].context
                  /\ "previous_citations" \notin DOMAIN history[E][k].context
        /\ Len(results[E]) = Len(order)
        /\ \A k \in DOMAIN order :
              /\ Ended(E, order[k])
              /\ results[E][k] =
                    Handled(plan[E].tools[order[k]].name, OutcomeOf(E, order[k]),
                            "tool_complete").result
        /\ pc[E] = "returned" =>
              /\ \A i \in 1..n : Cardinality(EventsOf(E, i, IsCall)) = 1
              /\ Len(results[E]) = n
              /\ Range(order) = 1..n

\* the results are in the order in which the calls ended
CompletionOrder ==
    LET order == CollectOrder(E)
    IN  \A k, l \in DOMAIN order :
            k < l => \A a \in EventsOf(E, order[k], IsEnd),
                        b \in EventsOf(E, order[l], IsEnd) : a < b

IsErrorResponse(r, error) ==
    /\ r # NoResponse
    /\ "error" \in DOMAIN r.metadata
    /\ r.metadata.error = TRUE
    /\ r.metadata.error_message = error
    /\ r.sources = <<>>
    /\ r.answer = "An error occurred while processing your query: " \o error

\* C15: process_query never raises: an exception that leaves a step inside
\* process_query is answered with a returned response whose metadata has error = true
\* and whose sources are empty, and every call that ends has returned a response.
C15_ExceptionsMapped ==
    /\ [](pc[E] = "done" => response[E] # NoResponse)
    /\ [][pc[E] = "raised" =>
             /\ pc'[E] = "done"
             /\ IsErrorResponse(response'[E], RaisedError(E))]_vars

\* the comparison of the chain's confidence 'medium' with min_confidence has raised
C15_Witness ==
    /\ pc[E] = "done"
    /\ plan[E].strategy = CONDITIONAL
    /\ IsErrorResponse(response[E],
                       "'<' not supported between instances of 'str' and 'float'")

(***************************************************************************)
(* Properties of get_execution_trace, for the callers of SpecTrace.        *)
(***************************************************************************)
\* an event of the trace, by its step and its tool
EventKinds(trace) == [k \in DOMAIN trace |-> <<trace[k].step, trace[k].tool>>]

\* the step of the event the engine records for an outcome of tool.execute
StepOf(outcome, success_step) ==
    CASE outcome.kind = "raise" -> "tool_error"
      [] ~outcome.result.success -> "tool_failure"
      [] OTHER -> success_step

\* the events of the loop over the tools 1..n, Sequential or Conditional
RECURSIVE LoopEvents(_, _)
LoopEvents(q, n) ==
    IF n = 0 THEN <<>>
    ELSE LET name == plan[q].tools[n].name
         IN  LoopEvents(q, n - 1) \o
             (IF Called(q, n)
              THEN <<<<"execute_tool", name>>, <<StepOf(OutcomeOf(q, n), "tool_success"), name>>>>
              ELSE <<<<"skip_tool", name>>>>)

\* the events the finished execute call of caller q has recorded, from what its tools did
EventsOfCall(q) ==
    LET n == Len(plan[q].tools)
        order == CollectOrder(q)
    IN  IF plan[q].strategy = PARALLEL
        THEN [i \in 1..n |-> <<"submit_tool", plan[q].tools[i].name>>] \o
             [k \in DOMAIN order |->
                 <<StepOf(OutcomeOf(q, order[k]), "tool_complete"),
                   plan[q].tools[order[k]].name>>]
        ELSE LoopEvents(q, n)

\* no execute call has begun on the engine after the one of caller q
MostRecentCall(q) == \A r \in Threads \ {q} : pc[r] = "waiting" \/ r < q

\* C16: get_execution_trace returns exactly the events of the most recent execute
\* call, in the order recorded, nothing of earlier calls; and what it returns is a
\* copy: the caller adding to or removing from it leaves the engine's trace as it was.
C16_TraceOfLastExecute ==
    \A q \in Threads :
        /\ pc[q] = "got_trace" =>
               /\ returned_trace[q].trace = execution_trace
               /\ EventKinds(returned_trace[q].trace) = EventsOfCall(q)
        /\ (pc[q] = "edited" /\ MostRecentCall(q)) =>
               /\ returned_trace[q].trace # execution_trace
               /\ EventKinds(execution_trace) = EventsOfCall(q)

\* the second call has ended after a first call with other events, its trace has been
\* read and the list edited
C16_Witness ==
    /\ pc = [q \in Threads |-> "edited"]
    /\ plan[1].strategy = PARALLEL
    /\ plan[2].strategy = CONDITIONAL
    /\ Skipped("web_search")
    /\ Len(returned_trace[1].trace) = Len(EventsOfCall(1)) + 1
    /\ Len(returned_trace[2].trace) = Len(EventsOfCall(2)) - 1
    /\ Len(execution_trace) = 3

(***************************************************************************)
(* CitationEnhancer.enhance, and the citations of a response.              *)
(***************************************************************************)
\* semantic_score of the retrieved documents, the similarity_score of their citations
SemanticScores ==
    (<<"policy.pdf", 1>> :> 800) @@ (<<"policy.pdf", 2>> :> 600)
    @@ (<<"handbook.pdf", 1>> :> 400)

\* _calculate_confidence without a cross-encoder score: similarity 50%, rank 30%,
\* tool 20%, clamped to [0, 1]
CalculateConfidence(similarity, rank, tool_confidence) ==
    LET decayed == 1000 - (rank - 1) * 100
        rank_confidence == IF decayed < 100 THEN 100 ELSE decayed
        weighted == (similarity * 500 + rank_confidence * 300 + tool_confidence * 200)
                    \div 1000
    IN  IF weighted < 0 THEN 0 ELSE Min(1000, weighted)

\* the citations enhance makes of the successful results, before its sort:
\* similarity_score or 0.0, rank_position, metadata.get('confidence', 1.0)
Enhanced(rs) ==
    LET similarity(c) == IF CitationKey(c) \in DOMAIN SemanticScores
                         THEN SemanticScores[CitationKey(c)] ELSE 0
        tool_confidence(r) ==
            IF "confidence" \in DOMAIN r.metadata /\ r.metadata.confidence.kind = "num"
            THEN r.metadata.confidence.v ELSE 1000
    IN  UNION {{[rs[i].citations[k] EXCEPT !.confidence_score =
                     CalculateConfidence(similarity(rs[i].citations[k]), k,
                                         tool_confidence(rs[i]))] :
                k \in DOMAIN rs[i].citations} :
               i \in {j \in DOMAIN rs : rs[j].success}}

\* C17: every citation in the sources of a response of process_query has been
\* enriched by the citation enhancer (its composite confidence_score computed)
\* before the engine merged it.
C17_CitationsEnriched ==
    Synthesized(E) =>
        \A k \in DOMAIN response[E].sources : response[E].sources[k] \in Enhanced(results[E])

(***************************************************************************)
(* Properties of QueryAnalyzer.analyze.                                    *)
(***************************************************************************)
\* the language model gave the analyzer no intent: there is no handler, generate
\* raised, or its reply holds none of the intent words
NoIntentFromLLM(q) ==
    \/ ~deps.llm_handler
    \/ llm_response[q].kind = "raise"
    \/ llm_response[q].kind = "reply" /\ llm_response[q].found = {}

SuccessesBefore(q, k) ==
    {j \in 1..(k - 1) :
        /\ IsEnd(history[q][j])
        /\ history[q][j].outcome.kind = "return"
        /\ history[q][j].outcome.result.success}

PreviousKeys == {"previous_result", "previous_citations"}

\* C19: in Sequential and Conditional execution a tool is called with
\* previous_result and previous_citations equal to the data and citations of the
\* latest earlier successful result, a failed or raising tool changing nothing; the
\* keys are absent while no tool has succeeded, and the caller's map never gets them.
C19_PreviousResult ==
    plan[E].strategy \in {SEQUENTIAL, CONDITIONAL} =>
        /\ \A k \in DOMAIN history[E] :
               IsCall(history[E][k]) =>
                   LET ctx == history[E][k].context
                       succeeded == SuccessesBefore(E, k)
                       last == CHOOSE j \in succeeded : \A i \in succeeded : i <= j
                   IN  IF succeeded = {} THEN PreviousKeys \cap DOMAIN ctx = {}
                       ELSE /\ PreviousKeys \subseteq DOMAIN ctx
                            /\ ctx.previous_result = history[E][last].outcome.result.data
                            /\ ctx.previous_citations =
                                   List(history[E][last].outcome.result.citations)
        /\ PreviousKeys \cap DOMAIN context[E] = {}

\* the third tool is called after a success with citations and a failure
C19_Witness ==
    /\ Called(E, 3)
    /\ Ended(E, 1)
    /\ Ended(E, 2)
    /\ ~HasFailed(OutcomeOf(E, 1))
    /\ OutcomeOf(E, 1).result.citations # <<>>
    /\ HasFailed(OutcomeOf(E, 2))
    /\ current_context[E].previous_citations = List(OutcomeOf(E, 1).result.citations)

\* result r comes from tool R and is a success
SuccessOf(r, R) == "tool" \in DOMAIN r.metadata /\ r.metadata.tool = R /\ r.success

\* the tools of q's plan whose only condition is a requires clause
RequiringTools(q) ==
    {i \in DOMAIN plan[q].tools :
        /\ plan[q].tools[i].name \in DOMAIN plan[q].conditions
        /\ DOMAIN plan[q].conditions[plan[q].tools[i].name] = {"requires"}}

\* C20: in Conditional execution a tool with requires = R passes the clause, and so
\* runs, if and only if some result gathered before it, not only the last, has
\* metadata.tool = R and success = true; otherwise the tool is skipped.
C20_RequiresAnySuccess ==
    plan[E].strategy = CONDITIONAL =>
        \A i \in RequiringTools(E) :
            Decided(E, i) =>
                LET R == plan[E].conditions[plan[E].tools[i].name].requires
                    before == ResultsBefore(E, i)
                IN  /\ Called(E, i) <=> \E k \in DOMAIN before : SuccessOf(before[k], R)
                    /\ ~Called(E, i) => Skipped(plan[E].tools[i].name)

(***************************************************************************)
(* Properties of the conditions of a Conditional plan.                     *)
(***************************************************************************)
\* the condition record of tool i of q's plan, <<>> when it has none
ConditionOf(q, i) ==
    IF plan[q].tools[i].name \in DOMAIN plan[q].conditions
    THEN plan[q].conditions[plan[q].tools[i].name] ELSE <<>>

\* metadata.confidence of a result, 1.0 when missing
ConfidenceOf(r) ==
    IF "confidence" \in DOMAIN r.metadata THEN r.metadata.confidence.v ELSE 1000

\* the clauses of tool i that are read off the last result gathered before it; each
\* holds when the tool has no such clause or no result has been gathered
MinConfidenceMet(q, i) ==
    LET before == ResultsBefore(q, i)
    IN  ("min_confidence" \in DOMAIN ConditionOf(q, i) /\ before # <<>>) =>
            ConfidenceOf(before[Len(before)]) >= ConditionOf(q, i).min_confidence

MaxConfidenceMet(q, i) ==
    LET before == ResultsBefore(q, i)
    IN  ("max_confidence" \in DOMAIN ConditionOf(q, i) /\ before # <<>>) =>
            ConfidenceOf(before[Len(before)]) < ConditionOf(q, i).max_confidence

MaxCitationsMet(q, i) ==
    LET before == ResultsBefore(q, i)
    IN  ("max_citations" \in DOMAIN ConditionOf(q, i) /\ before # <<>>) =>
            Len(before[Len(before)].citations) < ConditionOf(q, i).max_citations

LastResultClauses == {"min_confidence", "max_confidence", "max_citations"}

\* C21: min_confidence, max_confidence and max_citations are decided by the most
\* recent prior result alone, failed or not, with confidence 1.0 when it has none;
\* they hold when there is no prior result; and a tool runs only if all hold.
C21_LastResultDecides ==
    plan[E].strategy = CONDITIONAL =>
        \A i \in DOMAIN plan[E].tools :
            Decided(E, i) =>
                LET met == /\ MinConfidenceMet(E, i)
                           /\ MaxConfidenceMet(E, i)
                           /\ MaxCitationsMet(E, i)
                IN  /\ Called(E, i) => met
                    /\ DOMAIN ConditionOf(E, i) \subseteq LastResultClauses =>
                           (Called(E, i) <=> met)
                    /\ ResultsBefore(E, i) = <<>> => met

\* the third tool is held back by the confidence of the second result, a failure
\* or a result without confidence, though the first result would have let it run
C21_Witness ==
    /\ plan[E].strategy = CONDITIONAL
    /\ Len(plan[E].tools) = 3
    /\ Decided(E, 3)
    /\ "max_confidence" \in DOMAIN ConditionOf(E, 3)
    /\ Len(ResultsBefore(E, 3)) = 2
    /\ ConfidenceOf(results[E][1]) < ConditionOf(E, 3).max_confidence
    /\ "confidence" \notin DOMAIN results[E][2].metadata
    /\ ~Called(E, 3)

\* the reason of the skip_tool entry written for tool i
SkipReasonOf(q, i) == execution_trace[TraceStart(q, i)].reason

\* C28: the reason of a skip_tool entry tells the clause that held the tool back: a
\* tool held back by requires, min_confidence or context_key is not reported with a
\* confidence or citation reason left by an earlier skip or given by the session.
C28_SkipReasonOfOwnClause ==
    plan[E].strategy = CONDITIONAL =>
        \A i \in DOMAIN plan[E].tools :
            (Decided(E, i) /\ ~Called(E, i)
             /\ MaxConfidenceMet(E, i) /\ MaxCitationsMet(E, i)) =>
                SkipReasonOf(E, i) = "condition_not_met"

\* the keys a condition can find in the context when only the caller and the results
\* gathered before tool i have written to it
KeysFromResults(q, i) ==
    DOMAIN context[q]
    \cup (IF \E k \in DOMAIN ResultsBefore(q, i) : ResultsBefore(q, i)[k].success
          THEN PreviousKeys ELSE {})

\* C22: in Conditional execution the trace holds, tool by tool in plan order, one
\* skip_tool or one execute_tool; execute is called exactly for the execute_tool
\* entries; there are as many results as execute_tool entries; and a skipped tool
\* adds no result and nothing a later tool's condition can observe.
C22_SkipOrExecute ==
    plan[E].strategy = CONDITIONAL =>
        /\ \A i \in DOMAIN plan[E].tools :
              Decided(E, i) =>
                  /\ execution_trace[TraceStart(E, i)].tool = plan[E].tools[i].name
                  /\ execution_trace[TraceStart(E, i)].step =
                         IF Called(E, i) THEN "execute_tool" ELSE "skip_tool"
                  /\ DOMAIN ConditionOf(E, i) = {"context_key"} =>
                         (Called(E, i) <=>
                              ConditionOf(E, i).context_key \in KeysFromResults(E, i))
        /\ Cardinality(Steps("execute_tool") \cup Steps("skip_tool"))
               = Cardinality({i \in DOMAIN plan[E].tools : Decided(E, i)})
        /\ Len(results[E]) = Cardinality({i \in DOMAIN plan[E].tools : Ended(E, i)})
        /\ pc[E] = "returned" => Len(results[E]) = Cardinality(Steps("execute_tool"))

(***************************************************************************)
(* Properties of _create_execution_plan.                                   *)
(***************************************************************************)
\* the plan of caller q has been made
Planned(q) == pc[q] = "execute" /\ analysis[q] # None

SecondIsWebSearch(q) ==
    Len(plan[q].tools) >= 2 /\ plan[q].tools[2].name = "web_search"

\* the first three rules, which the plan of q falls under
SequentialFirst(q) ==
    \/ analysis[q].complexity = "complex"
       /\ analysis[q].intent \in {"comparison", "calculation"}
    \/ analysis[q].intent = "summarization"
    \/ \E i \in DOMAIN plan[q].tools : plan[q].tools[i].name = "summarization"

ParallelNext(q) ==
    ~SequentialFirst(q) /\ Len(plan[q].tools) > 1 /\ analysis[q].intent = "factual"

\* C23 as stated: the external rule and the requires_multiple_tools rule give
\* Conditional only for a list of at least two tools (the second being web_search
\* for the external rule); every other case left over is Sequential.
C23_StrategyByRule ==
    Planned(E) =>
        /\ plan[E].strategy =
               CASE SequentialFirst(E) -> SEQUENTIAL
                 [] ParallelNext(E) -> PARALLEL
                 [] analysis[E].intent = "external" /\ SecondIsWebSearch(E) -> CONDITIONAL
                 [] analysis[E].requires_multiple_tools /\ Len(plan[E].tools) >= 2
                        -> CONDITIONAL
                 [] OTHER -> SEQUENTIAL
        /\ plan[E].strategy # CONDITIONAL => plan[E].conditions = <<>>

\* C23: the strategy is that of the first rule that matches: Sequential for complex
\* comparison or calculation and for summarization, Parallel for several tools with
\* intent factual, Conditional for intent external and for requires_multiple_tools
\* whatever the number of tools, else Sequential.  The conditions are web_search
\* with max_confidence 0.5 for external when the second tool is web_search, the
\* second tool with min_confidence 0.0 and max_citations 3 for requires_multiple_tools
\* with two tools or more, and empty in every other case.
C23_PlanOfFirstRule ==
    Planned(E) =>
        LET external == ~SequentialFirst(E) /\ ~ParallelNext(E)
                        /\ analysis[E].intent = "external"
            multiple == ~SequentialFirst(E) /\ ~ParallelNext(E)
                        /\ analysis[E].intent # "external"
                        /\ analysis[E].requires_multiple_tools
        IN  /\ plan[E].strategy =
                   CASE SequentialFirst(E) -> SEQUENTIAL
                     [] ParallelNext(E) -> PARALLEL
                     [] external \/ multiple -> CONDITIONAL
                     [] OTHER -> SEQUENTIAL
            /\ plan[E].conditions =
                   CASE external /\ SecondIsWebSearch(E) ->
                            ("web_search" :> [max_confidence |-> 500])
                     [] multiple /\ Len(plan[E].tools) >= 2 ->
                            (plan[E].tools[2].name :>
                                 [min_confidence |-> 0, max_citations |-> 3])
                     [] OTHER -> <<>>

\* an external query answered with web_search alone: Conditional, no conditions
C23_Witness ==
    /\ Planned(E)
    /\ analysis[E].intent = "external"
    /\ Len(plan[E].tools) = 1
    /\ plan[E].strategy = CONDITIONAL
    /\ plan[E].conditions = <<>>

(***************************************************************************)
(* Properties of the data of merge_results.                                *)
(***************************************************************************)
\* the values the successful results with mapping data hold under a key, in input order
ValuesUnder(rs, key) ==
    LET holders == SelectSeq(rs, LAMBDA r : /\ r.success
                                           /\ IsDict(r.data)
                                           /\ key \in Keys(r.data.items))
    IN  [i \in DOMAIN holders |-> Lookup(holders[i].data.items, key)]

\* the keys of the successful results with mapping data
DataKeys(rs) ==
    UNION {Keys(rs[i].data.items) : i \in {j \in DOMAIN rs : rs[j].success /\ IsDict(rs[j].data)}}

\* what C24 says of the result m of merging the inputs rs
MergedAsDescribed(rs, m) ==
    LET successful == SelectSeq(rs, IsSuccess)
        data == m.data.items
    IN  /\ Keys(data) = (DataKeys(rs) \ {"answer"})
                        \cup (IF "answer" \in DataKeys(rs) THEN {"answers"} ELSE {})
        /\ "answer" \in DataKeys(rs) =>
               Lookup(data, "answers") = List(ValuesUnder(rs, "answer"))
        /\ \A key \in DataKeys(rs) \ {"answer"} :
               Lookup(data, key) =
                   IF Len(ValuesUnder(rs, key)) = 1 THEN ValuesUnder(rs, key)[1]
                   ELSE List(ValuesUnder(rs, key))
        /\ \A i \in DOMAIN successful :
               /\ \A k \in DOMAIN successful[i].citations :
                      \E n \in DOMAIN m.citations :
                          CitationKey(m.citations[n])
                              = CitationKey(successful[i].citations[k])
               /\ m.metadata.tools_used[i] = Get(successful[i].metadata, "tool", "unknown")
        /\ Len(m.metadata.tools_used) = Len(successful)
        /\ m.metadata.merge_count = Len(successful)

\* C24: the data of merge_results comes from the successful results with mapping
\* data, in input order: the values under answer make the sequence answers, a key met
\* once keeps its value, a key met again holds the sequence of its values in order;
\* every successful result, mapping or not, gives its citations and its tool, and
\* merge_count is the number of successful results.
C24_MergedData ==
    [][(pc[E] = "synthesize" /\ merged'[E] # None)
          => MergedAsDescribed(results[E], merged'[E])]_vars

(***************************************************************************)
(* Properties of the tool selection by the language model.                 *)
(***************************************************************************)
\* selection got past the rules and the suitability ranking with a handler present
ReachedLLMFallback ==
    /\ analysis[E] # None
    /\ analysis[E].intent # "conversational"
    /\ pc[E] \in {"plan", "done"}
    /\ RulesThatResolve = {}
    /\ SuitableTools = {}
    /\ deps.llm_handler

\* C25: when selection reaches the model fallback and the model names registered
\* tools (every reply of ToolSelectionReplies does: calculator and web_search are
\* always registered), the selected tools are the named ones in the model's order
\* and the trace holds an llm_tool_selection entry with them.
C25_LLMSelectsNamedTools ==
    ReachedLLMFallback =>
        /\ pc[E] = "plan"
        /\ \E k \in DOMAIN reasoning_trace :
              /\ reasoning_trace[k].step = "llm_tool_selection"
              /\ reasoning_trace[k].selected_tools \in ToolSelectionReplies
              /\ [i \in DOMAIN SelectedTools |-> SelectedTools[i].name]
                     = reasoning_trace[k].selected_tools

(***************************************************************************)
(* Properties of the external plan.                                        *)
(***************************************************************************)
\* the plan that _create_execution_plan builds for intent external
ExternalPlan(q) ==
    /\ plan[q].strategy = CONDITIONAL
    /\ PlanNames(q) = <<"semantic_search", "web_search">>
    /\ plan[q].conditions = ("web_search" :> [max_confidence |-> 500])

\* the internal search failed, or reported no confidence, or one below 0.5
NoRelevance(outcome) ==
    \/ HasFailed(outcome)
    \/ "confidence" \notin DOMAIN outcome.result.metadata
    \/ /\ outcome.result.metadata.confidence.kind = "num"
       /\ outcome.result.metadata.confidence.v < 500

\* C26: under the external plan web_search's execute is called whenever
\* semantic_search fails, raises, finds no documents (no metadata.confidence) or
\* reports a confidence below 0.5.
C26_WebSearchWithoutRelevance ==
    (/\ ExternalPlan(E)
     /\ pc[E] \in {"returned", "done"}
     /\ Ended(E, 1)
     /\ NoRelevance(OutcomeOf(E, 1))) => Called(E, 2)

(***************************************************************************)
(* Properties of the predicates over results of this repository's tools.   *)
(***************************************************************************)
\* C27: evaluating the predicates of a Conditional plan never makes execute raise,
\* whatever result a tool of the repository returned before, a chain's confidence
\* 'medium' included: no Conditional run ends with an exception leaving execute.
C27_PredicatesNeverAbort ==
    plan[E].strategy = CONDITIONAL => pc[E] # "raised"

(***************************************************************************)
(* Properties of the response of a Parallel plan across completion orders. *)
(***************************************************************************)
\* the results as_completed would have gathered under another completion order
Reordered(rs, p) == [i \in DOMAIN rs |-> rs[p[i]]]

\* what of a merged result the response shows: the sources, metadata.kb_confidence
\* and the header of the answer
Shown(m) ==
    LET kb_confidence == Get(m.metadata, "kb_confidence", None)
    IN  [sources |-> m.citations,
         kb_confidence |-> kb_confidence,
         header |-> HeaderOf([tools_used |-> m.metadata.tools_used,
                              kb_confidence |-> kb_confidence])]

\* C29: the response synthesized from the results of a Parallel plan shows the same
\* sources, kb_confidence and answer header as the one synthesized from the same
\* per-tool results gathered in any other completion order.
C29_CompletionOrderFree ==
    (Synthesized(E) /\ plan[E].strategy = PARALLEL /\ merged[E] # None) =>
        \A p \in Permutations(DOMAIN results[E]) :
            Merged(Reordered(results[E], p)) # None
            /\ Shown(Merged(Reordered(results[E], p))) = Shown(merged[E])

(***************************************************************************)
(* Properties of the inputs of merge_results.                              *)
(***************************************************************************)
\* C30: merge_results leaves its inputs unchanged: the data, citations and metadata of
\* every input result are after the call what they were before it, also when two
\* successful results share a data key whose first value is a sequence.
C30_InputsUnchanged ==
    [][pc[E] = "synthesize" => results'[E] = results[E]]_vars

==========================================================================
